---------------------------- MODULE Spec2Model ----------------------------
(***************************************************************************)
(* Model of github.com/majohn-r/tools-build: the environment-variable      *)
(* scope manager (SetupEnvVars / RestoreEnvVars), directedCommand.execute, *)
(* the path-safety predicate IsMalformedFileName, Clean, the cached        *)
(* working-directory resolver WorkingDir, the directory walker (AllDirs,   *)
(* RelevantDirs), the task functions (among them GenerateDocumentation and *)
(* FormatSelective with their excluded directories), EatTrailingEOL, and   *)
(* the recursive helpers containsBackDir and isParentDir.                  *)
(*                                                                         *)
(* Strings that the code inspects character by character (file names,     *)
(* captured output) are sequences of one-character strings.  Strings the   *)
(* code only compares or stores (variable names and values, directory      *)
(* names) are TLA+ strings.                                                *)
(***************************************************************************)
EXTENDS Naturals, Sequences, FiniteSets, TLC

VARIABLES
    env,            \* the process environment: name -> [defined, value]
    pc,             \* "idle", "exec" (before ExecFn), "deferred" (after it), "clean"
                    \* (in the loop of Clean), "returned", "exited" (after ExitFn)
    input,          \* the batch given to the last SetupEnvVars / dC.envVars
    savedEnvVars,   \* the snapshot SetupEnvVars returned
    savedIsNil,     \* TRUE when SetupEnvVars returned a nil snapshot
    envVarsOK,      \* the boolean SetupEnvVars returned
    envBefore,      \* history: env when the last SetupEnvVars/execute began
    envAtExec,      \* history: env when ExecFn was entered
    envCalls,       \* number of SetenvFn/UnsetenvFn calls made by the last operation
    execRan,        \* number of ExecFn invocations of the current/last execute
    execResult,     \* what ExecFn returned in the current/last execute
    execTouched,    \* names whose state ExecFn itself changed
    restoreRan,     \* TRUE when the last execute ran its deferred RestoreEnvVars
    outputBuffer,   \* the buffer bound to the command's stdout and stderr
    printed,        \* what PrintBuffer handed to printIt (<<>>: nothing printed)
    retval,         \* the boolean the last execute returned
    events,         \* what the current/last execute has done so far, in order
    lastOp,         \* the operation that produced this state
    prevOp,         \* the operation before it
    goos,           \* the platform the package was built for
    path,           \* the argument of the last IsMalformedFileName call
    verdict,        \* what that call returned
    CachedWorkingDir, \* the package variable of that name
    fsys,           \* BuildFS: path -> "none" | "file" | "dir"
    exitCode,       \* 0 while running, the status passed to ExitFn afterwards
    wdResult,       \* what the last WorkingDir call returned
    wdLookups,      \* os.LookupEnv("DIR") calls made by the last WorkingDir call
    wdIsDirCalls,   \* afero.IsDir calls made by the last WorkingDir call
    wdCachedBefore, \* history: CachedWorkingDir when the last WorkingDir call began
    fsAtStore,      \* history: fsys when CachedWorkingDir was last written
    files,          \* the list given to Clean
    cleanIdx,       \* position of Clean in that list (next entry to handle)
    present,        \* names of the files that exist under the working directory
    presentBefore,  \* history: present when Clean was called
    removed,        \* names Clean has removed so far
    tree,           \* BuildFS as the walker sees it: node -> "none" | "file" | "dir" | "locked"
    top,            \* the argument of the last AllDirs call (topDir for RelevantDirs)
    dirs,           \* the list the last AllDirs / RelevantDirs call returned
    dirsErr,        \* TRUE when that call returned an error
    matcher,        \* the fileMatcher given to the last RelevantDirs call
    task,           \* the task function that is running, "none" between tasks
    plan,           \* the directed commands of the task, in the order it issues them
    planIdx,        \* position of the task in that list
    cmdLog,         \* the commands ExecFn was invoked with, and what it returned
    taskDone,       \* TRUE once the task function has returned
    taskRet,        \* the boolean it returned
    taskEnvBefore,  \* history: env when the task function was called
    taskEnvCalls,   \* number of SetenvFn/UnsetenvFn calls made by the task so far
    AggressiveFlag, NoFormatFlag, NoTestFlag, TemplateFlag,  \* the flags of tasks.go
    coverageDataFile, \* the argument of GenerateCoverageReport
    exclusions,     \* the list given to GenerateDocumentation / FormatSelective
    eolInput,       \* the argument of the last EatTrailingEOL call
    eolOutput,      \* what that call returned
    recFn,          \* the recursive function that is running, "none" between calls
    recInput,       \* the argument it was called with
    recArg,         \* the argument of its innermost invocation
    recCalls,       \* number of invocations so far
    recPrevLen,     \* history: length of the argument of the invocation before
    recDone,        \* TRUE once the innermost invocation has returned
    recResult,      \* what it returned, for the two predicates
    targetDir, possibleParent,  \* the arguments of the last isParentDir call
    parentResult    \* what that call returned

envVarsState == <<env, pc, input, savedEnvVars, savedIsNil, envVarsOK, envBefore,
                  envAtExec, envCalls, execRan, execResult, execTouched,
                  restoreRan, outputBuffer, printed, retval, events>>
envVarsExceptPc == <<env, input, savedEnvVars, savedIsNil, envVarsOK, envBefore,
                     envAtExec, envCalls, execRan, execResult, execTouched,
                     restoreRan, outputBuffer, printed, retval, events>>
opState == <<lastOp, prevOp>>
pathState == <<goos, path, verdict>>
wdState == <<CachedWorkingDir, fsys, exitCode, wdResult, wdLookups, wdIsDirCalls,
             wdCachedBefore, fsAtStore>>
cleanState == <<files, cleanIdx, present, presentBefore, removed>>
dirState == <<tree, top, dirs, dirsErr, matcher>>
flagState == <<AggressiveFlag, NoFormatFlag, NoTestFlag, TemplateFlag, coverageDataFile,
               exclusions>>
taskState == <<task, plan, planIdx, cmdLog, taskDone, taskRet, taskEnvBefore,
               taskEnvCalls, flagState>>
eolState == <<eolInput, eolOutput>>
recState == <<recFn, recInput, recArg, recCalls, recPrevLen, recDone, recResult>>
parentState == <<targetDir, possibleParent, parentResult>>
otherState == <<dirState, taskState, eolState, recState, parentState>>
vars == <<envVarsState, opState, pathState, wdState, cleanState, otherState>>

(***************************************************************************)
(* Bounds of the model.                                                    *)
(***************************************************************************)
MaxBatch == 3       \* longest directive batch
MaxPathLen == 6     \* longest file name handed to IsMalformedFileName
MaxFiles == 2       \* longest list handed to Clean
MaxCoverLen == 2    \* longest file name handed to GenerateCoverageReport
MaxOutputLen == 5   \* longest string handed to EatTrailingEOL
MaxRecLen == 4      \* longest argument of a recursive function followed call by call
MaxDirLen == 3      \* longest directory name handed to isParentDir
MaxExclusions == 2  \* longest list of excluded directories

\* All sequences over S of length exactly n, and of length at most n.
RECURSIVE SeqsOfLen(_, _)
SeqsOfLen(S, n) ==
    IF n = 0 THEN {<<>>} ELSE {Append(t, x) : t \in SeqsOfLen(S, n - 1), x \in S}

SeqsUpTo(S, n) == UNION {SeqsOfLen(S, k) : k \in 0..n}

(***************************************************************************)
(* Environment variables (env.go).                                         *)
(***************************************************************************)
EnvNames == {"VAR1", "VAR2", "DIR"}
BatchNames == {"VAR1", "VAR2"}
EnvValues == {"", "foo"}

\* EnvVarMemento captures an environment variable's desired state.
EnvVarMemento == [Name : BatchNames, Value : EnvValues, Unset : BOOLEAN]

\* The directive batches the model hands to SetupEnvVars and execute.
Batches == SeqsUpTo(EnvVarMemento, MaxBatch)

Undefined == [defined |-> FALSE, value |-> ""]
Defined(v) == [defined |-> TRUE, value |-> v]
EnvStates == {Undefined} \cup {Defined(v) : v \in EnvValues}

\* os.LookupEnv: (value, defined); the value of an undefined variable is "".
LookupEnv(e, name) == e[name]

SetenvFn(e, name, value) == [e EXCEPT ![name] = Defined(value)]

UnsetenvFn_Clearenv(e, name) == [n \in DOMAIN e |-> Undefined]

UnsetenvFn(e, name) == [e EXCEPT ![name] = Undefined]

\* The loop of checkEnvVars from position i on, distinctVar being the names seen.
RECURSIVE checkLoop(_, _, _)
checkLoop(in, i, distinctVar) ==
    IF i > Len(in) THEN TRUE
    ELSE IF in[i].Name \in distinctVar THEN FALSE
    ELSE checkLoop(in, i + 1, distinctVar \cup {in[i].Name})

checkEnvVars_AdjacentOnly(in) ==
    \A i \in 1..(Len(in) - 1) : in[i].Name # in[i + 1].Name

checkEnvVars(in) ==
    IF Len(in) = 0 THEN TRUE ELSE checkLoop(in, 1, {})

\* One iteration of the loop of RestoreEnvVars.
restoreOne_AlwaysSet(e, v) == SetenvFn(e, v.Name, v.Value)

restoreOne(e, v) ==
    IF v.Unset THEN UnsetenvFn(e, v.Name) ELSE SetenvFn(e, v.Name, v.Value)

RECURSIVE RestoreEnvVars(_, _)
RestoreEnvVars(e, saved) ==
    IF Len(saved) = 0 THEN e
    ELSE RestoreEnvVars(restoreOne(e, Head(saved)), Tail(saved))

\* The memento SetupEnvVars appends for one directive: the state before mutation.
mementoOf_NewState(e, envVariable) ==
    [Name  |-> envVariable.Name,
     Value |-> envVariable.Value,
     Unset |-> envVariable.Unset]

mementoOf(e, envVariable) ==
    [Name  |-> envVariable.Name,
     Value |-> LookupEnv(e, envVariable.Name).value,
     Unset |-> ~LookupEnv(e, envVariable.Name).defined]

applyOne(e, envVariable) ==
    IF envVariable.Unset THEN UnsetenvFn(e, envVariable.Name)
    ELSE SetenvFn(e, envVariable.Name, envVariable.Value)

\* The loop of SetupEnvVars from position i on.
RECURSIVE setupLoop(_, _, _, _)
setupLoop(e, in, i, saved) ==
    IF i > Len(in)
    THEN [env |-> e, saved |-> saved, isNil |-> FALSE, ok |-> TRUE, calls |-> Len(in)]
    ELSE setupLoop(applyOne(e, in[i]), in, i + 1, Append(saved, mementoOf(e, in[i])))

SetupEnvVars(e, in) ==
    IF ~checkEnvVars(in)
    THEN [env |-> e, saved |-> <<>>, isNil |-> TRUE, ok |-> FALSE, calls |-> 0]
    ELSE setupLoop(e, in, 1, <<>>)

(***************************************************************************)
(* Captured output (output.go).                                            *)
(***************************************************************************)
LF == "\n"
CR == "\r"
OutputAlphabet == {"o", LF, CR}
Outputs == {<<>>, <<LF>>, <<"o", CR, LF>>}

HasSuffixChar(s, c) == Len(s) > 0 /\ s[Len(s)] = c
TrimLast(s) == SubSeq(s, 1, Len(s) - 1)

\* One step of EatTrailingEOL.
EatTrailingEOL_Once(s) ==
    IF HasSuffixChar(s, LF) \/ HasSuffixChar(s, CR) THEN TrimLast(s) ELSE s

RECURSIVE EatTrailingEOL(_)
EatTrailingEOL(s) ==
    IF HasSuffixChar(s, LF) THEN EatTrailingEOL(TrimLast(s))
    ELSE IF HasSuffixChar(s, CR) THEN EatTrailingEOL(TrimLast(s))
    ELSE s

\* What PrintBuffer hands to printIt; <<>> when it prints nothing.
PrintBuffer(b) == EatTrailingEOL(b)

\* One invocation of EatTrailingEOL: it returns s, or calls itself on next.
EatTrailingEOLStep(s) ==
    IF HasSuffixChar(s, LF) THEN [returns |-> FALSE, value |-> FALSE, next |-> TrimLast(s)]
    ELSE IF HasSuffixChar(s, CR)
         THEN [returns |-> FALSE, value |-> FALSE, next |-> TrimLast(s)]
    ELSE [returns |-> TRUE, value |-> FALSE, next |-> <<>>]


(***************************************************************************)
(* File names (file_utils.go).  A file name is a sequence of characters;    *)
(* BS is the backslash.  filepath.Split depends on the platform: on Windows *)
(* both separators count and a leading "x:" is a volume name that is never  *)
(* split, elsewhere only "/" is a separator and there are no volume names.  *)
(***************************************************************************)
BS == "\\"
PathAlphabet == {"a", ".", "/", BS, ":"}
Platforms == {"linux", "windows"}

\* The file names of n characters.
PathsOfLen(n) == [1..n -> PathAlphabet]

startsWith(s, c) == Len(s) > 0 /\ s[1] = c

canonicalPath(p) == [i \in 1..Len(p) |-> IF p[i] = BS THEN "/" ELSE p[i]]

\* strings.TrimSuffix(s, "/")
TrimSuffixSlash(s) ==
    IF Len(s) > 0 /\ s[Len(s)] = "/" THEN SubSeq(s, 1, Len(s) - 1) ELSE s

\* os.IsPathSeparator
IsPathSeparator(c) == c = "/" \/ (goos = "windows" /\ c = BS)

\* The length of p up to its k-th separator behind position from, that
\* separator left out; the length of p when it has no such separator.
lenBeforeSeparator(p, from, k) ==
    LET seps == {i \in (from + 1)..Len(p) : IsPathSeparator(p[i])}
    IN  IF Cardinality(seps) < k THEN Len(p)
        ELSE (CHOOSE i \in seps : Cardinality({j \in seps : j <= i}) = k) - 1

\* len(filepath.VolumeName(p)).  On Windows a volume name is a drive letter
\* with its colon, or, for a name that begins with two separators, the device
\* of a local device name ("\\.\x") or the host and share of a UNC name.
volumeNameLen(p) ==
    IF goos # "windows" THEN 0
    ELSE IF Len(p) >= 2 /\ p[2] = ":" THEN 2
    ELSE IF Len(p) < 2 \/ ~IsPathSeparator(p[1]) \/ ~IsPathSeparator(p[2]) THEN 0
    ELSE IF Len(p) >= 3 /\ p[3] = "." /\ (Len(p) = 3 \/ IsPathSeparator(p[4]))
         THEN (IF Len(p) = 3 THEN 3 ELSE lenBeforeSeparator(p, 4, 1))
    ELSE lenBeforeSeparator(p, 2, 2)

\* filepath.Split: the name is cut after its last separator behind the volume name.
filepathSplit(p) ==
    LET vol == volumeNameLen(p)
        seps == {i \in (vol + 1)..Len(p) : IsPathSeparator(p[i])}
        cut == IF seps = {} THEN vol
               ELSE CHOOSE i \in seps : \A j \in seps : j <= i
    IN  [dir |-> SubSeq(p, 1, cut), file |-> SubSeq(p, cut + 1, Len(p))]

DotDot == <<".", ".">>

RECURSIVE IsMalformedFileName(_)
IsMalformedFileName_LastComponentOnly(p) ==
    IF p = <<>> THEN FALSE
    ELSE IF startsWith(p, "/") \/ startsWith(p, BS) THEN TRUE
    ELSE LET sp == filepathSplit(canonicalPath(p)) IN
         IF sp.file = DotDot THEN TRUE
         ELSE IF sp.dir = p /\ sp.file = <<>> THEN TRUE
         ELSE FALSE

IsMalformedFileName(p) ==
    IF p = <<>> THEN FALSE
    ELSE IF startsWith(p, "/") \/ startsWith(p, BS) THEN TRUE
    ELSE LET sp == filepathSplit(canonicalPath(p)) IN
         IF sp.file = DotDot THEN TRUE
         ELSE IF sp.dir = p /\ sp.file = <<>> THEN TRUE
         ELSE IsMalformedFileName(TrimSuffixSlash(sp.dir))

\* One invocation of a recursive function: it returns value, or it calls
\* itself on next and returns what that call returns.
IsMalformedFileNameStep(p) ==
    IF p = <<>> THEN [returns |-> TRUE, value |-> FALSE, next |-> <<>>]
    ELSE IF startsWith(p, "/") \/ startsWith(p, BS)
         THEN [returns |-> TRUE, value |-> TRUE, next |-> <<>>]
    ELSE LET sp == filepathSplit(canonicalPath(p)) IN
         IF sp.file = DotDot THEN [returns |-> TRUE, value |-> TRUE, next |-> <<>>]
         ELSE IF sp.dir = p /\ sp.file = <<>>
              THEN [returns |-> TRUE, value |-> TRUE, next |-> <<>>]
         ELSE [returns |-> FALSE, value |-> FALSE, next |-> TrimSuffixSlash(sp.dir)]

\* containsBackDir of build.go, one invocation; its first test is
\* strings.Contains(f, "..").
containsBackDir(f) ==
    IF ~\E i \in 1..(Len(f) - 1) : f[i] = "." /\ f[i + 1] = "."
    THEN [returns |-> TRUE, value |-> FALSE, next |-> <<>>]
    ELSE IF f = DotDot THEN [returns |-> TRUE, value |-> TRUE, next |-> <<>>]
    ELSE LET sp == filepathSplit(f) IN
         IF sp.file = DotDot THEN [returns |-> TRUE, value |-> TRUE, next |-> <<>>]
         ELSE [returns |-> FALSE, value |-> FALSE,
               next |-> TrimSuffixSlash(canonicalPath(sp.dir))]

isIllegalFileName_MalformedOnly(p) == IsMalformedFileName(p)

isIllegalFileName(p) == p = <<>> \/ IsMalformedFileName(p)

\* A call IsMalformedFileName(p) by a user of the package.
IsMalformedFileNameCall(p) ==
    /\ pc = "idle"
    /\ path' = p
    /\ verdict' = IsMalformedFileName(p)
    /\ pc' = "returned"
    /\ lastOp' = "IsMalformedFileName"
    /\ prevOp' = lastOp
    /\ UNCHANGED goos
    /\ UNCHANGED <<envVarsExceptPc, wdState, cleanState, otherState>>

\* The caller goes on to its next file name.
pathCallerContinues ==
    /\ pc = "returned"
    /\ pc' = "idle"
    /\ path' = <<>>
    /\ verdict' = FALSE
    /\ lastOp' = "init"
    /\ prevOp' = "init"
    /\ UNCHANGED goos
    /\ UNCHANGED <<envVarsExceptPc, wdState, cleanState, otherState>>

(***************************************************************************)
(* The working directory (file_utils.go).  BuildFS is a map from the paths  *)
(* WorkingDir can ask about to what is found there.  ExitFn is os.Exit: the *)
(* process ends, and no operation follows.                                  *)
(***************************************************************************)
\* filepath.Join of two clean, non-empty elements.
filepathJoin(dir, name) ==
    dir \o (IF goos = "windows" THEN BS ELSE "/") \o name

\* The directories WorkingDir may be pointed at: ".." and the non-empty values of DIR.
Candidates == {".."} \cup (EnvValues \ {""})

FsPaths == Candidates \cup {filepathJoin(c, ".git") : c \in Candidates}

\* The states of BuildFS: nothing exists below what is not a directory.
FsStates ==
    {f \in [FsPaths -> {"none", "file", "dir"}] :
        \A c \in Candidates : f[c] # "dir" => f[filepathJoin(c, ".git")] = "none"}

kindIn(f, p) == IF p \in DOMAIN f THEN f[p] ELSE "none"

\* afero.IsDir(BuildFS, path) fails on a missing path and is false for a file.
isInvalidDir(p) ==
    IF kindIn(fsys, p) = "none" THEN TRUE
    ELSE IF kindIn(fsys, p) # "dir" THEN TRUE
    ELSE FALSE

UnacceptableWorkingDir_NoGitCheck(candidate) ==
    IF candidate = "" THEN TRUE
    ELSE IF isInvalidDir(candidate) THEN TRUE
    ELSE FALSE

UnacceptableWorkingDir(candidate) ==
    IF candidate = "" THEN TRUE
    ELSE IF isInvalidDir(candidate) THEN TRUE
    ELSE IF isInvalidDir(filepathJoin(candidate, ".git")) THEN TRUE
    ELSE FALSE

\* The number of afero.IsDir calls UnacceptableWorkingDir makes.
isDirCallsOf(candidate) ==
    IF candidate = "" THEN 0
    ELSE IF isInvalidDir(candidate) THEN 1
    ELSE 2

\* `if CachedWorkingDir == ""': only then is a candidate looked for.
needsResolve_Always(cached) == TRUE

needsResolve(cached) == cached = ""

\* The candidate: ".." unless DIR is set; dirVar is what os.LookupEnv("DIR") gave.
candidateOf_NonEmptyOnly(dirVar) ==
    IF dirVar.defined /\ dirVar.value # "" THEN dirVar.value ELSE ".."

candidateOf(dirVar) ==
    IF dirVar.defined THEN dirVar.value ELSE ".."

\* WorkingDir(): whether it calls ExitFn(1), what it leaves in the cache, what
\* it returns, and the look-ups it makes.
WorkingDir ==
    IF needsResolve(CachedWorkingDir)
    THEN LET candidate == candidateOf(LookupEnv(env, "DIR")) IN
         IF UnacceptableWorkingDir(candidate)
         THEN [exits |-> TRUE, cache |-> CachedWorkingDir, result |-> "",
               lookups |-> 1, isDirCalls |-> isDirCallsOf(candidate)]
         ELSE [exits |-> FALSE, cache |-> candidate, result |-> candidate,
               lookups |-> 1, isDirCalls |-> isDirCallsOf(candidate)]
    ELSE [exits |-> FALSE, cache |-> CachedWorkingDir, result |-> CachedWorkingDir,
          lookups |-> 0, isDirCalls |-> 0]

\* The effect of one WorkingDir() call on the state of the resolver; then is
\* where the caller stands when the call returns.
callWorkingDir(then) ==
    LET w == WorkingDir IN
    /\ wdCachedBefore' = CachedWorkingDir
    /\ wdLookups' = w.lookups
    /\ wdIsDirCalls' = w.isDirCalls
    /\ CachedWorkingDir' = w.cache
    /\ wdResult' = w.result
    /\ fsAtStore' = IF w.cache # CachedWorkingDir THEN fsys ELSE fsAtStore
    /\ exitCode' = IF w.exits THEN 1 ELSE exitCode
    /\ pc' = IF w.exits THEN "exited" ELSE then
    /\ UNCHANGED fsys

\* A call WorkingDir() by a user of the package.
WorkingDirCall ==
    /\ pc = "idle"
    /\ callWorkingDir("idle")
    /\ lastOp' = "WorkingDir"
    /\ prevOp' = lastOp
    /\ UNCHANGED <<envVarsExceptPc, pathState, cleanState, otherState>>

\* Between calls the surrounding program sets or unsets DIR ...
SetDIR(st) ==
    /\ pc = "idle"
    /\ env' = [env EXCEPT !["DIR"] = st]
    /\ lastOp' = "SetDIR"
    /\ prevOp' = lastOp
    /\ UNCHANGED <<pc, input, savedEnvVars, savedIsNil, envVarsOK, envBefore,
                   envAtExec, envCalls, execRan, execResult, execTouched,
                   restoreRan, outputBuffer, printed, retval, events>>
    /\ UNCHANGED <<pathState, wdState, cleanState, otherState>>

\* ... and the directory tree changes.
ChangeFS(f) ==
    /\ pc = "idle"
    /\ fsys' = f
    /\ lastOp' = "ChangeFS"
    /\ prevOp' = lastOp
    /\ UNCHANGED <<CachedWorkingDir, exitCode, wdResult, wdLookups, wdIsDirCalls,
                   wdCachedBefore, fsAtStore>>
    /\ UNCHANGED <<pc, envVarsExceptPc, pathState, cleanState, otherState>>

(***************************************************************************)
(* Clean (file_utils.go).  present holds the names whose file exists, each  *)
(* name standing for the file it designates from the working directory.     *)
(***************************************************************************)
CleanNames ==
    {<<>>, <<"a">>, <<"b">>, <<".", "/", "a">>, <<".", ".", "/", "a">>, <<"/", "a">>,
     <<"a", ":", "a">>}

FileLists == SeqsUpTo(CleanNames, MaxFiles)

\* io/fs.ValidPath: "." or "/"-separated elements, none empty, "." or "..".
RECURSIVE validPathLoop(_)
validPathLoop(name) ==
    LET slashes == {i \in 1..Len(name) : name[i] = "/"}
        i == IF slashes = {} THEN Len(name) + 1
             ELSE CHOOSE k \in slashes : \A j \in slashes : k <= j
        elem == SubSeq(name, 1, i - 1)
    IN  IF elem \in {<<>>, <<".">>, DotDot} THEN FALSE
        ELSE IF i > Len(name) THEN TRUE
        ELSE validPathLoop(SubSeq(name, i + 1, Len(name)))

ValidPath(name) == name = <<".">> \/ validPathLoop(name)

\* workingFS.Open(file) of an os.DirFS: the name must be valid (on Windows
\* also free of backslash and colon) and the file must exist.
openSucceeds(file) ==
    /\ ValidPath(file)
    /\ goos = "windows" => \A i \in 1..Len(file) : file[i] \notin {BS, ":"}
    /\ file \in present

\* Clean(files) up to its loop: workingFS := os.DirFS(WorkingDir()).
CleanCall(list) ==
    /\ pc = "idle"
    /\ callWorkingDir("clean")
    /\ files' = list
    /\ cleanIdx' = 1
    /\ removed' = {}
    /\ lastOp' = "Clean"
    /\ prevOp' = lastOp
    /\ presentBefore' = present
    /\ UNCHANGED present
    /\ UNCHANGED <<envVarsExceptPc, pathState, otherState>>

\* One iteration of the loop of Clean.
CleanStep ==
    /\ pc = "clean"
    /\ cleanIdx <= Len(files)
    /\ LET file == files[cleanIdx] IN
        IF isIllegalFileName(file)
        THEN /\ exitCode' = 1
             /\ pc' = "exited"
             /\ UNCHANGED <<cleanIdx, present, removed>>
        ELSE /\ IF openSucceeds(file)
                THEN /\ present' = present \ {file}
                     /\ removed' = removed \cup {file}
                ELSE UNCHANGED <<present, removed>>
             /\ cleanIdx' = cleanIdx + 1
             /\ UNCHANGED <<exitCode, pc>>
    /\ UNCHANGED <<files, presentBefore>>
    /\ UNCHANGED <<CachedWorkingDir, fsys, wdResult, wdLookups, wdIsDirCalls,
                   wdCachedBefore, fsAtStore>>
    /\ UNCHANGED <<envVarsExceptPc, opState, pathState, otherState>>

\* The loop of Clean is over: Clean returns.
CleanReturn ==
    /\ pc = "clean"
    /\ cleanIdx > Len(files)
    /\ pc' = "returned"
    /\ UNCHANGED <<envVarsExceptPc, opState, pathState, wdState, cleanState, otherState>>

(***************************************************************************)
(* directedCommand.execute (tasks.go).  ExecFn is an external collaborator:*)
(* it returns either boolean, writes any output, and may itself change a   *)
(* variable of the environment.                                            *)
(***************************************************************************)
\* `if state {' of execute: the executor runs only when SetupEnvVars succeeded.
execGuard_Always(state) == TRUE

execGuard(state) == state

\* `defer RestoreEnvVars(savedEnvVars)' of execute.
deferredRestore_Skipped(e, saved) == e

deferredRestore(e, saved) == RestoreEnvVars(e, saved)

\* What ExecFn may do to the environment: nothing, or change one variable.
ExecEffects(e) ==
    {e, SetenvFn(e, "VAR1", "")}

\* The calls execute defers, in the order it defers them: PrintBuffer at its
\* start, RestoreEnvVars once SetupEnvVars has succeeded.
deferredCalls(state) ==
    <<"PrintBuffer">> \o (IF state THEN <<"RestoreEnvVars">> ELSE <<>>)

\* Deferred calls run when the function returns, the last deferred first.
runDeferred_InOrder(calls) == calls

runDeferred(calls) == [i \in 1..Len(calls) |-> calls[Len(calls) + 1 - i]]

\* What a call does, as events: SetupEnvVars and RestoreEnvVars handle the
\* entries of their batch one after the other.
RECURSIVE eventsOf(_, _)
eventsOf(calls, batch) ==
    IF calls = <<>> THEN <<>>
    ELSE (IF Head(calls) \in {"SetupEnvVars", "RestoreEnvVars"}
          THEN [i \in 1..Len(batch) |-> [op |-> Head(calls), name |-> batch[i].Name]]
          ELSE <<[op |-> Head(calls), name |-> ""]>>)
         \o eventsOf(Tail(calls), batch)

\* The description of the last execute, as it is while none has run.
noExecute ==
    /\ events' = <<>>
    /\ envAtExec' = env'
    /\ execRan' = 0
    /\ execResult' = FALSE
    /\ execTouched' = {}
    /\ restoreRan' = FALSE
    /\ outputBuffer' = <<>>
    /\ printed' = <<>>
    /\ retval' = FALSE

\* The standalone call SetupEnvVars(batch).
SetupEnvVarsCall(batch) ==
    /\ pc = "idle"
    /\ LET r == SetupEnvVars(env, batch) IN
        /\ env' = r.env
        /\ savedEnvVars' = r.saved
        /\ savedIsNil' = r.isNil
        /\ envVarsOK' = r.ok
        /\ envCalls' = r.calls
    /\ input' = batch
    /\ envBefore' = env
    /\ lastOp' = "SetupEnvVars"
    /\ prevOp' = lastOp
    /\ pc' = "returned"
    /\ noExecute
    /\ UNCHANGED <<pathState, wdState, cleanState, otherState>>

\* The standalone call RestoreEnvVars(savedEnvVars) on the snapshot the caller holds.
RestoreEnvVarsCall ==
    /\ pc = "returned"
    /\ env' = RestoreEnvVars(env, savedEnvVars)
    /\ envCalls' = Len(savedEnvVars)
    /\ lastOp' = "RestoreEnvVars"
    /\ prevOp' = lastOp
    /\ noExecute
    /\ UNCHANGED <<pc, input, savedEnvVars, savedIsNil, envVarsOK, envBefore>>
    /\ UNCHANGED <<pathState, wdState, cleanState, otherState>>

\* execute up to the call of ExecFn; returns at once when SetupEnvVars failed.
executeBegin(batch) ==
    /\ pc = "idle"
    /\ LET r == SetupEnvVars(env, batch) IN
        /\ env' = r.env
        /\ savedEnvVars' = r.saved
        /\ savedIsNil' = r.isNil
        /\ envVarsOK' = r.ok
        /\ envCalls' = r.calls
        /\ IF execGuard(r.ok)
           THEN /\ pc' = "exec"
                /\ printed' = <<>>
                /\ retval' = FALSE
                /\ events' = eventsOf(<<"SetupEnvVars">>, batch)
           ELSE /\ pc' = "returned"
                /\ printed' = PrintBuffer(<<>>)
                /\ retval' = r.ok
                /\ events' = eventsOf(runDeferred(deferredCalls(r.ok)), r.saved)
    /\ input' = batch
    /\ envBefore' = env
    /\ envAtExec' = env'
    /\ execRan' = 0
    /\ execResult' = FALSE
    /\ execTouched' = {}
    /\ restoreRan' = FALSE
    /\ outputBuffer' = <<>>
    /\ lastOp' = "execute"
    /\ prevOp' = lastOp
    /\ UNCHANGED <<pathState, wdState, cleanState, otherState>>

\* The call ExecFn(a, dC.command, options...) inside execute.
ExecFn(result, out) ==
    /\ pc = "exec"
    /\ \E e \in ExecEffects(env) :
        /\ env' = e
        /\ execTouched' = {n \in EnvNames : e[n] # env[n]}
    /\ envAtExec' = env
    /\ execRan' = execRan + 1
    /\ execResult' = result
    /\ outputBuffer' = out
    /\ events' = events \o eventsOf(<<"ExecFn">>, <<>>)
    /\ pc' = "deferred"
    /\ UNCHANGED <<input, savedEnvVars, savedIsNil, envVarsOK, envBefore, envCalls,
                   restoreRan, printed, retval>>
    /\ UNCHANGED <<opState, pathState, wdState, cleanState, otherState>>

\* The return of execute after ExecFn: the deferred RestoreEnvVars, then the
\* deferred PrintBuffer; the result is what ExecFn returned.
executeReturn ==
    /\ pc = "deferred"
    /\ env' = deferredRestore(env, savedEnvVars)
    /\ restoreRan' = TRUE
    /\ envCalls' = envCalls + Len(savedEnvVars)
    /\ printed' = PrintBuffer(outputBuffer)
    /\ retval' = execResult
    /\ events' = events \o eventsOf(runDeferred(deferredCalls(envVarsOK)), savedEnvVars)
    /\ pc' = "returned"
    /\ UNCHANGED <<input, savedEnvVars, savedIsNil, envVarsOK, envBefore, envAtExec,
                   execRan, execResult, execTouched, outputBuffer>>
    /\ UNCHANGED <<opState, pathState, wdState, cleanState, otherState>>

\* The caller drops what the last operation returned and goes on; only the
\* environment itself is carried over to the next call.
dropCall ==
    /\ pc = "returned"
    /\ pc' = "idle"
    /\ input' = <<>>
    /\ savedEnvVars' = <<>>
    /\ savedIsNil' = TRUE
    /\ envVarsOK' = FALSE
    /\ envBefore' = env
    /\ envCalls' = 0
    /\ lastOp' = "init"
    /\ prevOp' = "init"
    /\ UNCHANGED env
    /\ noExecute

callerContinues ==
    /\ dropCall
    /\ UNCHANGED <<pathState, wdState, cleanState, otherState>>

(***************************************************************************)
(* The directory walker (file_utils.go).  A node of the tree is the list    *)
(* of names that leads to it from the parent of the process's current       *)
(* directory; a name is a sequence of characters.  A "locked" node is a     *)
(* directory whose entries cannot be read.  Names hold no separator and no  *)
(* volume name, and no path of the walker is rooted.                        *)
(***************************************************************************)
dotGit == <<".", "g", "i", "t">>
fooGo == <<"f", "o", "o", ".", "g", "o">>
fooTestGo == <<"f", "o", "o", "_", "t", "e", "s", "t", ".", "g", "o">>
goMod == <<"g", "o", ".", "m", "o", "d">>

\* The current directory of the process, a directory named w.
cwd == << <<"w">> >>

\* No node: what a path that leads nowhere resolves to.
NoNode == << <<"/">> >>

\* The places of the tree and what may be found at each, parents first.
TreeLayout ==
    LET a == cwd \o << <<"a">> >>
        b == a \o << <<"b">> >>
    IN  << [node |-> cwd \o <<dotGit>>,        kinds |-> {"none", "dir"}],
           [node |-> cwd \o <<dotGit, fooGo>>, kinds |-> {"none", "file"}],
           [node |-> a,                        kinds |-> {"none", "file", "dir"}],
           [node |-> b,                        kinds |-> {"none", "dir", "locked"}],
           [node |-> b \o << <<"d">> >>,       kinds |-> {"none", "dir"}],
           [node |-> b \o << <<"d">>, fooGo >>, kinds |-> {"none", "file"}],
           [node |-> b \o <<fooGo>>,           kinds |-> {"none", "file"}],
           [node |-> b \o <<goMod>>,           kinds |-> {"none", "file"}],
           [node |-> a \o << <<"c">> >>,       kinds |-> {"none", "dir"}],
           [node |-> a \o <<fooTestGo>>,       kinds |-> {"none", "file"}],
           [node |-> a \o <<goMod>>,           kinds |-> {"none", "file", "dir"}] >>

parentOf(node) == SubSeq(node, 1, Len(node) - 1)

\* The trees over TreeLayout from place i on: nothing exists below what is
\* not a directory.
RECURSIVE TreesFrom(_, _)
TreesFrom(i, tr) ==
    IF i > Len(TreeLayout) THEN {tr}
    ELSE LET e == TreeLayout[i]
             ks == IF tr[parentOf(e.node)] \in {"dir", "locked"}
                   THEN e.kinds ELSE {"none"}
         IN  UNION {TreesFrom(i + 1, tr @@ (e.node :> k)) : k \in ks}

Trees == TreesFrom(1, (<<>> :> "dir") @@ (cwd :> "dir"))

\* The bytes of the characters that occur in names, in increasing order.
ByteOrder ==
    <<".", "/", ":", BS, "_", "a", "b", "c", "d", "e", "f", "g", "i", "m", "o",
      "s", "t", "w">>

\* x < y as Go compares strings.
RECURSIVE nameLess(_, _)
nameLess(x, y) ==
    IF y = <<>> THEN FALSE
    ELSE IF x = <<>> THEN TRUE
    ELSE IF x[1] = y[1] THEN nameLess(Tail(x), Tail(y))
    ELSE (CHOOSE i \in 1..Len(ByteOrder) : ByteOrder[i] = x[1])
            < (CHOOSE i \in 1..Len(ByteOrder) : ByteOrder[i] = y[1])

\* What lies between the separators of a path.
RECURSIVE pathComponents(_)
pathComponents(p) ==
    LET seps == {i \in 1..Len(p) : IsPathSeparator(p[i])}
    IN  IF seps = {} THEN <<p>>
        ELSE LET i == CHOOSE k \in seps : \A j \in seps : k <= j
             IN  <<SubSeq(p, 1, i - 1)>> \o pathComponents(SubSeq(p, i + 1, Len(p)))

\* The node the operating system reaches from node along comps.
RECURSIVE walkFrom(_, _)
walkFrom(node, comps) ==
    IF node = NoNode \/ comps = <<>> THEN node
    ELSE IF tree[node] \notin {"dir", "locked"} THEN NoNode
    ELSE LET c == Head(comps)
             next == IF c = <<>> \/ c = <<".">> THEN node
                     ELSE IF c = DotDot
                          THEN (IF node = <<>> THEN NoNode ELSE parentOf(node))
                     ELSE IF Append(node, c) \in DOMAIN tree
                              /\ tree[Append(node, c)] # "none"
                          THEN Append(node, c)
                     ELSE NoNode
         IN  walkFrom(next, Tail(comps))

\* The node a relative path names for the process.
nodeOf(p) ==
    IF p = <<>> \/ IsPathSeparator(p[1]) THEN NoNode
    ELSE walkFrom(cwd, pathComponents(p))

\* afero.IsDir(BuildFS, path): an error for what does not exist.
IsDir(p) ==
    LET n == nodeOf(p)
        k == IF n = NoNode THEN "none" ELSE tree[n]
    IN  [err |-> k = "none", isDir |-> k \in {"dir", "locked"}]

\* The names in S in increasing order.
RECURSIVE sortNames(_)
sortNames(S) ==
    IF S = {} THEN <<>>
    ELSE LET m == CHOOSE x \in S : \A y \in S \ {x} : nameLess(x, y)
         IN  <<m>> \o sortNames(S \ {m})

\* afero.ReadDir(BuildFS, path): the entries of a readable directory, sorted
\* by name; an error for anything else.
ReadDir(p) ==
    LET n == nodeOf(p) IN
    IF n = NoNode \/ tree[n] # "dir" THEN [err |-> TRUE, entries |-> <<>>]
    ELSE LET names == {m[Len(m)] : m \in {x \in DOMAIN tree :
                          /\ Len(x) = Len(n) + 1
                          /\ parentOf(x) = n
                          /\ tree[x] # "none"}}
             sorted == sortNames(names)
         IN  [err |-> FALSE,
              entries |-> [i \in 1..Len(sorted) |->
                              [name |-> sorted[i], kind |-> tree[Append(n, sorted[i])]]]]

\* The names comps written one after the other with sep between them.
RECURSIVE joinNames(_, _)
joinNames(comps, sep) ==
    IF comps = <<>> THEN <<>>
    ELSE IF Len(comps) = 1 THEN comps[1]
    ELSE comps[1] \o <<sep>> \o joinNames(Tail(comps), sep)

\* The loop of filepath.Clean: empty and "." components go, ".." takes the
\* component before it away, or stays when there is none in a relative path.
RECURSIVE cleanLoop(_, _, _)
cleanLoop(comps, out, rooted) ==
    IF comps = <<>> THEN out
    ELSE LET c == Head(comps)
             o == IF c = <<>> \/ c = <<".">> THEN out
                  ELSE IF c # DotDot THEN Append(out, c)
                  ELSE IF Len(out) > 0 /\ out[Len(out)] # DotDot
                       THEN SubSeq(out, 1, Len(out) - 1)
                  ELSE IF rooted THEN out
                  ELSE Append(out, c)
         IN  cleanLoop(Tail(comps), o, rooted)

\* filepath.Clean of a path without volume name.
filepathClean(p) ==
    LET sep == IF goos = "windows" THEN BS ELSE "/"
        rooted == Len(p) > 0 /\ IsPathSeparator(p[1])
        body == joinNames(cleanLoop(pathComponents(p), <<>>, rooted), sep)
    IN  IF rooted THEN <<sep>> \o body
        ELSE IF body = <<>> THEN <<".">>
        ELSE body

\* filepath.Join(dir, name): empty elements are dropped, the rest is cleaned.
JoinPath(dir, name) ==
    IF dir = <<>> /\ name = <<>> THEN <<>>
    ELSE IF dir = <<>> THEN filepathClean(name)
    ELSE IF name = <<>> THEN filepathClean(dir)
    ELSE filepathClean(dir \o <<IF goos = "windows" THEN BS ELSE "/">> \o name)

\* `if topIsDir, err = afero.IsDir(BuildFS, top); err != nil' and `if !topIsDir'.
rejectsTop_MissingOnly(t) == IsDir(t).err

rejectsTop(t) == LET d == IsDir(t) IN d.err \/ ~d.isDir

\* `dirs = append(dirs, subDirs...)'
appendDirs_Before(ds, subDirs) == subDirs \o ds

appendDirs(ds, subDirs) == ds \o subDirs

\* AllDirs(top): the list and whether an error is returned with it.
RECURSIVE AllDirs(_)
RECURSIVE allDirsLoop(_, _, _, _)
allDirsLoop(t, entries, i, ds) ==
    IF i > Len(entries) THEN ds
    ELSE IF entries[i].kind \in {"dir", "locked"}
         THEN allDirsLoop(t, entries, i + 1,
                          appendDirs(ds, AllDirs(JoinPath(t, entries[i].name)).dirs))
    ELSE allDirsLoop(t, entries, i + 1, ds)

AllDirs(t) ==
    IF rejectsTop(t) THEN [dirs |-> <<>>, err |-> TRUE]
    ELSE LET c == canonicalPath(t)
         IN  [dirs |-> allDirsLoop(c, ReadDir(c).entries, 1, <<c>>), err |-> FALSE]

HasPrefix(s, prefix) ==
    Len(prefix) <= Len(s) /\ SubSeq(s, 1, Len(prefix)) = prefix

HasSuffix(s, suffix) ==
    Len(suffix) <= Len(s) /\ SubSeq(s, Len(s) - Len(suffix) + 1, Len(s)) = suffix

TrimPrefix(s, prefix) ==
    IF HasPrefix(s, prefix) THEN SubSeq(s, Len(prefix) + 1, Len(s)) ELSE s

isParentDir(target, parent) ==
    IF ~HasPrefix(target, parent) THEN FALSE
    ELSE IF target = parent THEN TRUE
    ELSE IF HasSuffix(parent, <<"/">>) THEN TRUE
    ELSE HasPrefix(TrimPrefix(target, parent), <<"/">>)

MatchGoSource(name) ==
    /\ HasSuffix(name, <<".", "g", "o">>)
    /\ ~HasSuffix(name, <<"_", "t", "e", "s", "t", ".", "g", "o">>)
    /\ ~HasPrefix(name, <<"t", "e", "s", "t", "i", "n", "g">>)

matchAnyGoFile(name) == HasSuffix(name, <<".", "g", "o">>)

matchModuleFile(name) == name = goMod

\* The matchers the package hands to RelevantDirs, and what each accepts.
Matchers == {"MatchGoSource", "matchAnyGoFile", "matchModuleFile"}

fileMatcher(m, name) ==
    CASE m = "MatchGoSource" -> MatchGoSource(name)
      [] m = "matchAnyGoFile" -> matchAnyGoFile(name)
      [] m = "matchModuleFile" -> matchModuleFile(name)

IsRelevantFile_AnyEntry(entry, m) == fileMatcher(m, entry.name)

IsRelevantFile(entry, m) ==
    IF entry.kind # "file" THEN FALSE ELSE fileMatcher(m, entry.name)

IncludesRelevantFiles(dir, m) ==
    LET r == ReadDir(dir) IN
    IF r.err THEN FALSE
    ELSE \E i \in 1..Len(r.entries) : IsRelevantFile(r.entries[i], m)

\* The values of the working directory the walker is started from, and the
\* characters of each.
WorkingRoots == {"a", "a/", "./a", ".", "..", ".\\a"}

bytesOf(s) ==
    CASE s = "a" -> <<"a">>
      [] s = "a/" -> <<"a", "/">>
      [] s = "./a" -> <<".", "/", "a">>
      [] s = "." -> <<".">>
      [] s = ".." -> DotDot
      [] s = ".\\a" -> <<".", BS, "a">>

\* The arguments AllDirs is called with.
WalkTops ==
    {bytesOf(s) : s \in WorkingRoots} \cup {<<"a", "/", "b">>, <<"a", BS, "b">>}

\* `sourceDir := strings.TrimPrefix(strings.TrimPrefix(dir, topDir), "/")'
sourceDirOf(dir, topDir) == TrimPrefix(TrimPrefix(dir, topDir), <<"/">>)

\* RelevantDirs(fileMatcher), topDir being what WorkingDir() returned.
RelevantDirs(topDir, m) ==
    LET a == AllDirs(topDir)
        sel == SelectSeq(a.dirs, LAMBDA d : IncludesRelevantFiles(d, m))
    IN  IF a.err THEN [dirs |-> <<>>, err |-> TRUE]
        ELSE [dirs |-> [i \in 1..Len(sel) |-> sourceDirOf(sel[i], topDir)],
              err |-> FALSE]

\* A call AllDirs(t) by a user of the package.
AllDirsCall(t) ==
    /\ pc = "idle"
    /\ top' = t
    /\ LET r == AllDirs(t) IN
        /\ dirs' = r.dirs
        /\ dirsErr' = r.err
    /\ matcher' = "none"
    /\ pc' = "returned"
    /\ lastOp' = "AllDirs"
    /\ prevOp' = lastOp
    /\ UNCHANGED tree
    /\ UNCHANGED <<envVarsExceptPc, pathState, wdState, cleanState, taskState, eolState,
                   recState, parentState>>

\* A call RelevantDirs(m) once the working directory is resolved: WorkingDir()
\* returns the cached value.
RelevantDirsCall(m) ==
    /\ pc = "idle"
    /\ ~needsResolve(CachedWorkingDir)
    /\ LET topDir == bytesOf(WorkingDir.result)
           r == RelevantDirs(topDir, m)
       IN  /\ top' = topDir
           /\ dirs' = r.dirs
           /\ dirsErr' = r.err
    /\ matcher' = m
    /\ pc' = "returned"
    /\ lastOp' = "RelevantDirs"
    /\ prevOp' = lastOp
    /\ UNCHANGED tree
    /\ UNCHANGED <<envVarsExceptPc, pathState, wdState, cleanState, taskState, eolState,
                   recState, parentState>>

\* The caller drops the list and goes on.
walkCallerContinues ==
    /\ pc = "returned"
    /\ pc' = "idle"
    /\ top' = <<>>
    /\ dirs' = <<>>
    /\ dirsErr' = FALSE
    /\ matcher' = "none"
    /\ lastOp' = "init"
    /\ prevOp' = "init"
    /\ UNCHANGED tree
    /\ UNCHANGED <<envVarsExceptPc, pathState, wdState, cleanState, taskState, eolState,
                   recState, parentState>>

(***************************************************************************)
(* The task functions (tasks.go).  A task function issues its directed      *)
(* commands one after the other through execute and gives up at the first   *)
(* that fails.  The text of a command is a string; arg is the file name     *)
(* that fills the %s of the text, for the commands that have one.           *)
(***************************************************************************)
TaskEnvNames == EnvNames \cup {"GOPROXY"}
ProxyStates == {Undefined, Defined("direct"), Defined("foo")}

DefaultTemplate ==
    "{{println .Path}}{{range .Funcs}}{{printf \"\\t%s\\t%s\\n\" .Position .Name}}{{end}}{{println}}"

Templates == {DefaultTemplate, "{{.Name}}"}

\* strings.Join(parts, sep)
RECURSIVE stringsJoin(_, _)
stringsJoin(parts, sep) ==
    IF parts = <<>> THEN ""
    ELSE IF Len(parts) = 1 THEN parts[1]
    ELSE parts[1] \o sep \o stringsJoin(Tail(parts), sep)

\* The directedCommand RunCommand builds; WorkingDir() returns the cached value.
RunCommand(command, arg) ==
    [command |-> command, arg |-> arg, dir |-> bytesOf(WorkingDir.result),
     envVars |-> <<>>]

Install(packageName) ==
    RunCommand("go install -v " \o packageName \o "@latest", <<>>)

\* What a task function does before its first command and the commands it
\* issues while none fails: fails is TRUE when it returns false at once.
Lint ==
    [fails |-> FALSE,
     commands |-> <<Install("github.com/go-critic/go-critic/cmd/gocritic"),
                    RunCommand("gocritic check -enableAll ./...", <<>>)>>]

NilAway ==
    [fails |-> FALSE,
     commands |-> <<Install("go.uber.org/nilaway/cmd/nilaway"),
                    RunCommand("nilaway ./...", <<>>)>>]

VulnerabilityCheck ==
    [fails |-> FALSE,
     commands |-> <<Install("golang.org/x/vuln/cmd/govulncheck"),
                    RunCommand("govulncheck -show verbose ./...", <<>>)>>]

\* cmdParts of Deadcode.
cmdParts_TestOnlyWithFormat(noFormat, noTest, template) ==
    <<"deadcode">>
        \o (IF ~noFormat THEN <<"-f='" \o template \o "'">> ELSE <<>>)
        \o (IF ~noTest /\ ~noFormat THEN <<"-test">> ELSE <<>>)
        \o <<".">>

cmdParts(noFormat, noTest, template) ==
    <<"deadcode">>
        \o (IF ~noFormat THEN <<"-f='" \o template \o "'">> ELSE <<>>)
        \o (IF ~noTest THEN <<"-test">> ELSE <<>>)
        \o <<".">>

Deadcode(noFormat, noTest, template) ==
    [fails |-> FALSE,
     commands |-> <<Install("golang.org/x/tools/cmd/deadcode"),
                    RunCommand(stringsJoin(cmdParts(noFormat, noTest, template), " "),
                               <<>>)>>]

GenerateCoverageReport(file) ==
    IF isIllegalFileName(file) THEN [fails |-> TRUE, commands |-> <<>>]
    ELSE [fails |-> FALSE,
          commands |-> <<RunCommand("go test -coverprofile=%s ./...", file),
                         RunCommand("go tool cover -html=%s", file)>>]

\* getCommand.envVars of UpdateDependencies.
getEnvVars_Always(aggressive) ==
    <<[Name |-> "GOPROXY", Value |-> "direct", Unset |-> FALSE]>>

getEnvVars(aggressive) ==
    IF aggressive
    THEN <<[Name |-> "GOPROXY", Value |-> "direct", Unset |-> FALSE]>>
    ELSE <<>>

\* The loop of UpdateDependencies from position i of ds on.
RECURSIVE updateLoop(_, _, _)
updateLoop(ds, i, aggressive) ==
    IF i > Len(ds) THEN <<>>
    ELSE LET dirPath == JoinPath(bytesOf(WorkingDir.result), ds[i])
         IN  <<[command |-> "go get -u ./...", arg |-> <<>>, dir |-> dirPath,
                envVars |-> getEnvVars(aggressive)],
               [command |-> "go mod tidy", arg |-> <<>>, dir |-> dirPath,
                envVars |-> <<>>]>>
             \o updateLoop(ds, i + 1, aggressive)

UpdateDependencies(aggressive) ==
    LET r == RelevantDirs(bytesOf(WorkingDir.result), "matchModuleFile") IN
    IF r.err THEN [fails |-> TRUE, commands |-> <<>>]
    ELSE [fails |-> FALSE, commands |-> updateLoop(r.dirs, 1, aggressive)]

\* GenerateDocumentation(a, excludedDirs): one command for each directory
\* with Go source that no excluded directory is a parent of.
GenerateDocumentation(excludedDirs) ==
    LET r == RelevantDirs(bytesOf(WorkingDir.result), "MatchGoSource")
        documented == SelectSeq(r.dirs, LAMBDA dir :
                          ~\E i \in 1..Len(excludedDirs) : isParentDir(dir, excludedDirs[i]))
    IN  IF r.err THEN [fails |-> TRUE, commands |-> <<>>]
        ELSE [fails |-> FALSE,
              commands |-> [i \in 1..Len(documented) |->
                              [command |-> "go doc -all ./%s", arg |-> documented[i],
                               dir |-> bytesOf(WorkingDir.result), envVars |-> <<>>]]]

Format ==
    [fails |-> FALSE, commands |-> <<RunCommand("gofmt -e -l -s -w .", <<>>)>>]

\* The loop of FormatSelective from position i of srcDirs on: what it appends
\* to command, rootFiles being the names of the files of the working
\* directory that end in ".go".
RECURSIVE formatLoop(_, _, _, _)
formatLoop(srcDirs, i, excluded, rootFiles) ==
    IF i > Len(srcDirs) THEN <<>>
    ELSE (IF srcDirs[i] = <<>> THEN rootFiles
          ELSE IF \E k \in 1..Len(excluded) : isParentDir(srcDirs[i], excluded[k])
               THEN <<>>
          ELSE <<srcDirs[i]>>)
         \o formatLoop(srcDirs, i + 1, excluded, rootFiles)

\* FormatSelective(a, exclusions).  The text of its command is "gofmt -e -l
\* -s -w"; arg is what strings.Join puts behind it: each path with a space
\* before it.
FormatSelective(excluded) ==
    IF Len(excluded) = 0 THEN Format
    ELSE LET topDir == bytesOf(WorkingDir.result)
             r == RelevantDirs(topDir, "matchAnyGoFile")
             entries == ReadDir(topDir).entries
             goFiles == SelectSeq(entries, LAMBDA entry :
                            entry.kind = "file" /\ matchAnyGoFile(entry.name))
             rootFiles == [i \in 1..Len(goFiles) |-> goFiles[i].name]
             paths == formatLoop(r.dirs, 1, excluded, rootFiles)
         IN  IF r.err THEN [fails |-> TRUE, commands |-> <<>>]
             ELSE [fails |-> FALSE,
                   commands |-> <<RunCommand("gofmt -e -l -s -w",
                                             joinNames(<< <<>> >> \o paths, " "))>>]

\* `if !X { return false }': a task gives up when a command has failed.
givesUp_Never(state) == FALSE

givesUp(state) == ~state

\* The state of the task functions while none is running; the flags have
\* their default values.
noTask ==
    /\ task' = "none"
    /\ plan' = <<>>
    /\ planIdx' = 0
    /\ cmdLog' = <<>>
    /\ taskDone' = FALSE
    /\ taskRet' = FALSE
    /\ taskEnvBefore' = env
    /\ taskEnvCalls' = 0
    /\ AggressiveFlag' = FALSE
    /\ NoFormatFlag' = FALSE
    /\ NoTestFlag' = FALSE
    /\ TemplateFlag' = DefaultTemplate
    /\ coverageDataFile' = <<>>
    /\ exclusions' = <<>>

\* A task function is called once the working directory is resolved, and
\* runs up to its first command.
beginTask(name, outcome) ==
    /\ pc = "idle"
    /\ task = "none"
    /\ ~needsResolve(CachedWorkingDir)
    /\ task' = name
    /\ plan' = outcome.commands
    /\ planIdx' = 1
    /\ cmdLog' = <<>>
    /\ taskDone' = (outcome.fails \/ outcome.commands = <<>>)
    /\ taskRet' = (~outcome.fails /\ outcome.commands = <<>>)
    /\ taskEnvBefore' = env
    /\ taskEnvCalls' = 0
    /\ UNCHANGED <<envVarsState, opState, pathState, wdState, cleanState, dirState,
                   eolState, recState, parentState>>

LintCall ==
    beginTask("Lint", Lint) /\ UNCHANGED flagState

NilAwayCall ==
    beginTask("NilAway", NilAway) /\ UNCHANGED flagState

VulnerabilityCheckCall ==
    beginTask("VulnerabilityCheck", VulnerabilityCheck) /\ UNCHANGED flagState

\* Deadcode with the flags as its caller has set them.
DeadcodeCall(noFormat, noTest, template) ==
    /\ beginTask("Deadcode", Deadcode(noFormat, noTest, template))
    /\ NoFormatFlag' = noFormat
    /\ NoTestFlag' = noTest
    /\ TemplateFlag' = template
    /\ UNCHANGED <<AggressiveFlag, coverageDataFile, exclusions>>

GenerateCoverageReportCall(file) ==
    /\ beginTask("GenerateCoverageReport", GenerateCoverageReport(file))
    /\ coverageDataFile' = file
    /\ UNCHANGED <<AggressiveFlag, NoFormatFlag, NoTestFlag, TemplateFlag, exclusions>>

\* UpdateDependencies with the flag as its caller has set it.
UpdateDependenciesCall(aggressive) ==
    /\ beginTask("UpdateDependencies", UpdateDependencies(aggressive))
    /\ AggressiveFlag' = aggressive
    /\ UNCHANGED <<NoFormatFlag, NoTestFlag, TemplateFlag, coverageDataFile, exclusions>>

GenerateDocumentationCall(excludedDirs) ==
    /\ beginTask("GenerateDocumentation", GenerateDocumentation(excludedDirs))
    /\ exclusions' = excludedDirs
    /\ UNCHANGED <<AggressiveFlag, NoFormatFlag, NoTestFlag, TemplateFlag,
                   coverageDataFile>>

FormatSelectiveCall(excluded) ==
    /\ beginTask("FormatSelective", FormatSelective(excluded))
    /\ exclusions' = excluded
    /\ UNCHANGED <<AggressiveFlag, NoFormatFlag, NoTestFlag, TemplateFlag,
                   coverageDataFile>>

\* The task issues its next command: execute up to the call of ExecFn.
taskExecute ==
    /\ task # "none"
    /\ ~taskDone
    /\ executeBegin(plan[planIdx].envVars)

\* execute has returned to the task: it gives up, goes on to its next
\* command, or returns true after the last.
taskStep ==
    /\ pc = "returned"
    /\ task # "none"
    /\ ~taskDone
    /\ cmdLog' = IF execRan > 0
                 THEN Append(cmdLog, [command |-> plan[planIdx].command,
                                      arg |-> plan[planIdx].arg,
                                      dir |-> plan[planIdx].dir,
                                      goproxy |-> envAtExec["GOPROXY"],
                                      result |-> execResult])
                 ELSE cmdLog
    /\ taskEnvCalls' = taskEnvCalls + envCalls
    /\ IF givesUp(retval)
       THEN taskDone' = TRUE /\ taskRet' = FALSE /\ planIdx' = planIdx
       ELSE IF planIdx = Len(plan)
            THEN taskDone' = TRUE /\ taskRet' = retval /\ planIdx' = planIdx
       ELSE taskDone' = FALSE /\ taskRet' = FALSE /\ planIdx' = planIdx + 1
    /\ dropCall
    /\ UNCHANGED <<task, plan, taskEnvBefore, flagState>>
    /\ UNCHANGED <<pathState, wdState, cleanState, dirState, eolState, recState,
                   parentState>>

\* The task function has returned; its caller goes on.
taskCallerContinues ==
    /\ pc = "idle"
    /\ taskDone
    /\ noTask
    /\ UNCHANGED <<envVarsState, opState, pathState, wdState, cleanState, dirState,
                   eolState, recState, parentState>>

(***************************************************************************)
(* Calls of EatTrailingEOL (output.go).                                     *)
(***************************************************************************)
EatTrailingEOLCall(s) ==
    /\ pc = "idle"
    /\ eolInput' = s
    /\ eolOutput' = EatTrailingEOL(s)
    /\ pc' = "returned"
    /\ lastOp' = "EatTrailingEOL"
    /\ prevOp' = lastOp
    /\ UNCHANGED <<envVarsExceptPc, pathState, wdState, cleanState, dirState, taskState,
                   recState, parentState>>

eolCallerContinues ==
    /\ pc = "returned"
    /\ pc' = "idle"
    /\ eolInput' = <<>>
    /\ eolOutput' = <<>>
    /\ lastOp' = "init"
    /\ prevOp' = "init"
    /\ UNCHANGED <<envVarsExceptPc, pathState, wdState, cleanState, dirState, taskState,
                   recState, parentState>>

(***************************************************************************)
(* The recursive functions followed call by call, and isParentDir.          *)
(***************************************************************************)
\* The arguments a recursive function is called with.
RecArgs(fn, n) ==
    IF fn = "EatTrailingEOL" THEN [1..n -> OutputAlphabet] ELSE PathsOfLen(n)

\* A call fn(arg) by a user of the package: the first invocation begins.
recursiveCall(fn, arg) ==
    /\ pc = "idle"
    /\ recFn' = fn
    /\ recInput' = arg
    /\ recArg' = arg
    /\ recCalls' = 1
    /\ recPrevLen' = Len(arg)
    /\ recDone' = FALSE
    /\ recResult' = FALSE
    /\ pc' = "recursion"
    /\ lastOp' = fn
    /\ prevOp' = lastOp
    /\ UNCHANGED <<envVarsExceptPc, pathState, wdState, cleanState, dirState, taskState,
                   eolState, parentState>>

\* The innermost invocation runs: it returns, and with it every invocation
\* that waits for it, or it makes the next call.  The model follows at most
\* MaxRecLen + 3 invocations.
recursionStep ==
    /\ pc = "recursion"
    /\ LET r == CASE recFn = "IsMalformedFileName" -> IsMalformedFileNameStep(recArg)
                   [] recFn = "containsBackDir" -> containsBackDir(recArg)
                   [] recFn = "EatTrailingEOL" -> EatTrailingEOLStep(recArg)
       IN
        IF r.returns
        THEN /\ recDone' = TRUE
             /\ recResult' = r.value
             /\ pc' = "returned"
             /\ UNCHANGED <<recArg, recCalls, recPrevLen>>
        ELSE /\ recCalls < MaxRecLen + 3
             /\ recArg' = r.next
             /\ recPrevLen' = Len(recArg)
             /\ recCalls' = recCalls + 1
             /\ UNCHANGED <<recDone, recResult, pc>>
    /\ UNCHANGED <<recFn, recInput>>
    /\ UNCHANGED <<envVarsExceptPc, opState, pathState, wdState, cleanState, dirState,
                   taskState, eolState, parentState>>

\* The directory names isParentDir is called with.
DirNames(n) == [1..n -> {"b", "d", "/"}]

\* A call isParentDir(target, parent).
isParentDirCall(target, parent) ==
    /\ pc = "idle"
    /\ targetDir' = target
    /\ possibleParent' = parent
    /\ parentResult' = isParentDir(target, parent)
    /\ pc' = "returned"
    /\ lastOp' = "isParentDir"
    /\ prevOp' = lastOp
    /\ UNCHANGED <<envVarsExceptPc, pathState, wdState, cleanState, dirState, taskState,
                   eolState, recState>>

\* The caller drops the result and goes on.
resultDropped ==
    /\ pc = "returned"
    /\ pc' = "idle"
    /\ recFn' = "none"
    /\ recInput' = <<>>
    /\ recArg' = <<>>
    /\ recCalls' = 0
    /\ recPrevLen' = 0
    /\ recDone' = FALSE
    /\ recResult' = FALSE
    /\ targetDir' = <<>>
    /\ possibleParent' = <<>>
    /\ parentResult' = FALSE
    /\ lastOp' = "init"
    /\ prevOp' = "init"
    /\ UNCHANGED <<envVarsExceptPc, pathState, wdState, cleanState, dirState, taskState,
                   eolState>>

(***************************************************************************)
(* Initial values.                                                         *)
(***************************************************************************)
InitEnvVars ==
    /\ pc = "idle"
    /\ input = <<>>
    /\ savedEnvVars = <<>>
    /\ savedIsNil = TRUE
    /\ envVarsOK = FALSE
    /\ envBefore = env
    /\ envAtExec = env
    /\ envCalls = 0
    /\ execRan = 0
    /\ execResult = FALSE
    /\ execTouched = {}
    /\ restoreRan = FALSE
    /\ outputBuffer = <<>>
    /\ printed = <<>>
    /\ retval = FALSE
    /\ events = <<>>
    /\ lastOp = "init"
    /\ prevOp = "init"

InitPath ==
    /\ path = <<>>
    /\ verdict = FALSE

InitWorkingDir ==
    /\ CachedWorkingDir = ""
    /\ exitCode = 0
    /\ wdResult = ""
    /\ wdLookups = 0
    /\ wdIsDirCalls = 0
    /\ wdCachedBefore = ""
    /\ fsAtStore = <<>>

InitClean ==
    /\ files = <<>>
    /\ cleanIdx = 0
    /\ present = {}
    /\ presentBefore = {}
    /\ removed = {}

\* The tree in which the current directory is empty.
EmptyTree ==
    [n \in {<<>>, cwd} \cup {TreeLayout[i].node : i \in 1..Len(TreeLayout)} |->
        IF n \in {<<>>, cwd} THEN "dir" ELSE "none"]

\* No walk has been made, no task function is running and the flags have
\* their default values, EatTrailingEOL has not been called.
InitOther ==
    /\ top = <<>>
    /\ dirs = <<>>
    /\ dirsErr = FALSE
    /\ matcher = "none"
    /\ task = "none"
    /\ plan = <<>>
    /\ planIdx = 0
    /\ cmdLog = <<>>
    /\ taskDone = FALSE
    /\ taskRet = FALSE
    /\ taskEnvBefore = env
    /\ taskEnvCalls = 0
    /\ AggressiveFlag = FALSE
    /\ NoFormatFlag = FALSE
    /\ NoTestFlag = FALSE
    /\ TemplateFlag = DefaultTemplate
    /\ coverageDataFile = <<>>
    /\ exclusions = <<>>
    /\ eolInput = <<>>
    /\ eolOutput = <<>>
    /\ recFn = "none"
    /\ recInput = <<>>
    /\ recArg = <<>>
    /\ recCalls = 0
    /\ recPrevLen = 0
    /\ recDone = FALSE
    /\ recResult = FALSE
    /\ targetDir = <<>>
    /\ possibleParent = <<>>
    /\ parentResult = FALSE

\* The working directory has been resolved to one of roots by an earlier call.
InitResolved(roots) ==
    /\ CachedWorkingDir \in roots
    /\ exitCode = 0
    /\ wdResult = ""
    /\ wdLookups = 0
    /\ wdIsDirCalls = 0
    /\ wdCachedBefore = ""
    /\ fsAtStore = <<>>

(***************************************************************************)
(* SpecEnv: the environment-variable scope manager and execute.            *)
(***************************************************************************)
InitEnv ==
    /\ env \in [EnvNames -> EnvStates]
    /\ goos = "linux"
    /\ fsys = <<>>
    /\ InitEnvVars /\ InitPath /\ InitWorkingDir /\ InitClean
    /\ tree = EmptyTree /\ InitOther

NextEnv ==
    \/ pc = "idle" /\ \E batch \in Batches : SetupEnvVarsCall(batch)
    \/ RestoreEnvVarsCall
    \/ pc = "idle" /\ \E batch \in Batches : executeBegin(batch)
    \/ pc = "exec" /\ \E result \in BOOLEAN, out \in Outputs : ExecFn(result, out)
    \/ executeReturn
    \/ callerContinues

SpecEnv == InitEnv /\ [][NextEnv]_vars


(***************************************************************************)
(* SpecPath: calls of IsMalformedFileName on every bounded file name, on    *)
(* either platform.                                                        *)
(***************************************************************************)
InitPathSpec ==
    /\ env = [n \in EnvNames |-> Undefined]
    /\ goos \in Platforms
    /\ fsys = <<>>
    /\ InitEnvVars /\ InitPath /\ InitWorkingDir /\ InitClean
    /\ tree = EmptyTree /\ InitOther

NextPath ==
    \/ pc = "idle" /\ \E n \in 0..MaxPathLen :
                        \E p \in PathsOfLen(n) : IsMalformedFileNameCall(p)
    \/ pathCallerContinues

SpecPath == InitPathSpec /\ [][NextPath]_vars

(***************************************************************************)
(* SpecWD: calls of WorkingDir while DIR and the directory tree change.     *)
(***************************************************************************)
InitWD ==
    /\ goos \in Platforms
    /\ env \in {e \in [EnvNames -> EnvStates] :
                    e["VAR1"] = Undefined /\ e["VAR2"] = Undefined}
    /\ fsys \in FsStates
    /\ InitEnvVars /\ InitPath /\ InitWorkingDir /\ InitClean
    /\ tree = EmptyTree /\ InitOther

NextWD ==
    \/ WorkingDirCall
    \/ \E st \in EnvStates : SetDIR(st)
    \/ \E f \in FsStates : ChangeFS(f)

SpecWD == InitWD /\ [][NextWD]_vars

(***************************************************************************)
(* SpecClean: one call of Clean in a process whose working directory is     *)
(* not resolved yet, in a tree where ".." and "foo" are both acceptable.    *)
(***************************************************************************)
InitCleanSpec ==
    /\ goos \in Platforms
    /\ env \in {e \in [EnvNames -> EnvStates] :
                    e["VAR1"] = Undefined /\ e["VAR2"] = Undefined}
    /\ fsys = [p \in FsPaths |-> "dir"]
    /\ InitEnvVars /\ InitPath /\ InitWorkingDir
    /\ files = <<>>
    /\ cleanIdx = 0
    /\ present \in SUBSET {n \in CleanNames \ {<<>>} : ~HasPrefix(n, <<".", "/">>)}
    /\ presentBefore = present
    /\ removed = {}
    /\ tree = EmptyTree /\ InitOther

NextClean ==
    \/ pc = "idle" /\ lastOp = "init" /\ \E list \in FileLists : CleanCall(list)
    \/ CleanStep
    \/ CleanReturn

SpecClean == InitCleanSpec /\ [][NextClean]_vars

(***************************************************************************)
(* SpecDirs: calls of AllDirs and RelevantDirs on every tree, from every    *)
(* spelling of the working directory, on either platform.                  *)
(***************************************************************************)
\* The trees of SpecDirs: go.mod is looked for in a only, and .git, where
\* it exists, holds foo.go.
DirTrees ==
    {tr \in Trees :
        /\ tr[cwd \o << <<"a">>, <<"b">>, goMod >>] = "none"
        /\ tr[cwd \o << <<"a">>, <<"b">>, <<"d">>, fooGo >>] = "none"
        /\ tr[cwd \o <<dotGit>>] = "dir" => tr[cwd \o <<dotGit, fooGo>>] = "file"}

InitDirs ==
    /\ env = [n \in EnvNames |-> Undefined]
    /\ goos \in Platforms
    /\ fsys = <<>>
    /\ tree \in DirTrees
    /\ InitEnvVars /\ InitPath /\ InitResolved(WorkingRoots) /\ InitClean
    /\ InitOther

NextDirs ==
    \/ pc = "idle" /\ \E t \in WalkTops : AllDirsCall(t)
    \/ pc = "idle" /\ \E m \in Matchers : RelevantDirsCall(m)
    \/ walkCallerContinues

SpecDirs == InitDirs /\ [][NextDirs]_vars

(***************************************************************************)
(* SpecTasks: the task functions, on trees that differ in where go.mod is   *)
(* found.  ExecFn succeeds or fails as it likes.                            *)
(***************************************************************************)
TaskTrees ==
    {tr \in Trees : \A n \in DOMAIN tr \ {<<>>, cwd} :
        CASE n[Len(n)] = <<"a">> -> tr[n] \in {"file", "dir"}
          [] n[Len(n)] = <<"b">> -> tr[parentOf(n)] = "dir" => tr[n] = "dir"
          [] n[Len(n)] = goMod -> tr[n] \in {"none", "file"}
          [] OTHER -> tr[n] = "none"}

TaskRoots == {"a", "./a"}

TaskOutputs == {<<"o", LF>>}

InitTasks ==
    /\ env \in {[n \in TaskEnvNames |->
                    IF n = "GOPROXY" THEN g
                    ELSE IF n = "VAR1" THEN Defined("") ELSE Undefined] :
                g \in ProxyStates}
    /\ goos \in Platforms
    /\ fsys = <<>>
    /\ tree \in TaskTrees
    /\ InitEnvVars /\ InitPath /\ InitResolved(TaskRoots) /\ InitClean
    /\ InitOther

NextTasks ==
    \/ LintCall
    \/ NilAwayCall
    \/ VulnerabilityCheckCall
    \/ pc = "idle" /\ task = "none" /\
          \E noFormat \in BOOLEAN, noTest \in BOOLEAN, template \in Templates :
              DeadcodeCall(noFormat, noTest, template)
    \/ pc = "idle" /\ task = "none" /\
          \E n \in 0..MaxCoverLen :
              \E file \in PathsOfLen(n) : GenerateCoverageReportCall(file)
    \/ pc = "idle" /\ task = "none" /\
          \E aggressive \in BOOLEAN : UpdateDependenciesCall(aggressive)
    \/ taskExecute
    \/ pc = "exec" /\ \E result \in BOOLEAN, out \in TaskOutputs : ExecFn(result, out)
    \/ executeReturn
    \/ taskStep
    \/ taskCallerContinues

SpecTasks == InitTasks /\ [][NextTasks]_vars

(***************************************************************************)
(* SpecOutput: calls of EatTrailingEOL on every bounded string.             *)
(***************************************************************************)
InitOutputSpec ==
    /\ env = [n \in EnvNames |-> Undefined]
    /\ goos = "linux"
    /\ fsys = <<>>
    /\ InitEnvVars /\ InitPath /\ InitWorkingDir /\ InitClean
    /\ tree = EmptyTree /\ InitOther

NextOutput ==
    \/ pc = "idle" /\ \E n \in 0..MaxOutputLen :
                        \E s \in [1..n -> OutputAlphabet] : EatTrailingEOLCall(s)
    \/ eolCallerContinues

SpecOutput == InitOutputSpec /\ [][NextOutput]_vars

(***************************************************************************)
(* SpecSources: GenerateDocumentation and FormatSelective on trees that     *)
(* differ in where Go files are found, with lists of excluded directories.  *)
(***************************************************************************)
SourceTrees ==
    {tr \in Trees : \A n \in DOMAIN tr \ {<<>>, cwd} :
        CASE n[Len(n)] = <<"a">> -> tr[n] \in {"file", "dir"}
          [] n[Len(n)] \in {<<"b">>, <<"d">>, fooGo, fooTestGo} -> TRUE
          [] OTHER -> tr[n] = "none"}

\* The lists of excluded directories.
Exclusions ==
    SeqsUpTo({<<"b">>, <<"b", "/">>, <<"b", "/", "d">>, <<"d">>}, MaxExclusions)

InitSources ==
    /\ env = [n \in TaskEnvNames |-> IF n = "VAR1" THEN Defined("") ELSE Undefined]
    /\ goos \in Platforms
    /\ fsys = <<>>
    /\ tree \in SourceTrees
    /\ InitEnvVars /\ InitPath /\ InitResolved(TaskRoots) /\ InitClean
    /\ InitOther

NextSources ==
    \/ pc = "idle" /\ task = "none" /\
          \E excludedDirs \in Exclusions : GenerateDocumentationCall(excludedDirs)
    \/ pc = "idle" /\ task = "none" /\
          \E excluded \in Exclusions : FormatSelectiveCall(excluded)
    \/ taskExecute
    \/ pc = "exec" /\ \E result \in BOOLEAN, out \in TaskOutputs : ExecFn(result, out)
    \/ executeReturn
    \/ taskStep
    \/ taskCallerContinues

SpecSources == InitSources /\ [][NextSources]_vars

(***************************************************************************)
(* SpecCalls: calls of the recursive functions, followed invocation by      *)
(* invocation, and calls of isParentDir, on either platform.                *)
(***************************************************************************)
InitCalls ==
    /\ env = [n \in EnvNames |-> Undefined]
    /\ goos \in Platforms
    /\ fsys = <<>>
    /\ InitEnvVars /\ InitPath /\ InitWorkingDir /\ InitClean
    /\ tree = EmptyTree /\ InitOther

NextCalls ==
    \/ pc = "idle" /\ \E fn \in {"IsMalformedFileName", "containsBackDir", "EatTrailingEOL"} :
                        \E n \in 0..MaxRecLen :
                            \E arg \in RecArgs(fn, n) : recursiveCall(fn, arg)
    \/ recursionStep
    \/ pc = "idle" /\ \E n \in 0..MaxDirLen, k \in 0..MaxDirLen :
                        \E target \in DirNames(n), parent \in DirNames(k) :
                            isParentDirCall(target, parent)
    \/ resultDropped

SpecCalls == InitCalls /\ [][NextCalls]_vars

(***************************************************************************)
(* Claims about the environment-variable scope manager and execute.        *)
(***************************************************************************)
\* The names of a batch are pairwise distinct.
DistinctNames(in) ==
    \A i, j \in 1..Len(in) : i # j => in[i].Name # in[j].Name

NamesOf(in) == {in[i].Name : i \in 1..Len(in)}

\* C1: SetupEnvVars on a batch of pairwise distinct names followed at once by
\* RestoreEnvVars on the snapshot it returned leaves every variable named in
\* the batch in the state (defined with the same value, or undefined) it had
\* before SetupEnvVars ran.
C1_RoundTrip ==
    (lastOp = "RestoreEnvVars" /\ prevOp = "SetupEnvVars" /\ DistinctNames(input))
        => \A n \in NamesOf(input) : env[n] = envBefore[n]

C1_Witness ==
    /\ lastOp = "RestoreEnvVars" /\ prevOp = "SetupEnvVars"
    /\ Len(input) = 2 /\ DistinctNames(input)
    /\ input[1].Unset /\ envBefore[input[1].Name] = Defined("foo")
    /\ ~input[2].Unset /\ envBefore[input[2].Name] = Undefined
    /\ env = envBefore

\* C2: SetupEnvVars on a batch in which some name occurs more than once (at any
\* positions, with equal or different values) returns (nil, false) and makes no
\* call that sets or unsets a variable: the environment is unchanged.
C2_DuplicateRejected ==
    (lastOp = "SetupEnvVars" /\ ~DistinctNames(input))
        => /\ savedIsNil /\ ~envVarsOK
           /\ envCalls = 0
           /\ env = envBefore

C2_Witness ==
    /\ lastOp = "SetupEnvVars"
    /\ Len(input) = 3
    /\ input[1].Name = input[3].Name /\ input[1].Name # input[2].Name
    /\ input[1].Value # input[3].Value
    /\ savedIsNil /\ ~envVarsOK

\* C3: execute with a batch that holds a duplicate name never invokes ExecFn,
\* returns false, does not run RestoreEnvVars, and leaves the environment as it
\* was before the call.
C3_ExecuteDuplicate ==
    (lastOp = "execute" /\ ~DistinctNames(input))
        => /\ pc = "returned"
           /\ execRan = 0
           /\ retval = FALSE
           /\ ~restoreRan
           /\ envCalls = 0
           /\ env = envBefore

C3_Witness ==
    /\ lastOp = "execute" /\ pc = "returned"
    /\ Len(input) = 2 /\ input[1].Name = input[2].Name
    /\ ~input[1].Unset /\ envBefore[input[1].Name] # Defined(input[1].Value)
    /\ execRan = 0 /\ retval = FALSE

\* C4: execute with a duplicate-free batch invokes ExecFn exactly once, returns
\* what ExecFn returned, and on return (ExecFn having succeeded or failed) every
\* variable named in the batch that ExecFn did not itself change has the state
\* it had before execute was called.
C4_ExecuteRestores ==
    (lastOp = "execute" /\ DistinctNames(input))
        => /\ execRan <= 1
           /\ pc = "returned" =>
                /\ execRan = 1
                /\ retval = execResult
                /\ \A n \in NamesOf(input) \ execTouched : env[n] = envBefore[n]

C4_Witness ==
    /\ lastOp = "execute" /\ pc = "returned"
    /\ Len(input) = 2 /\ DistinctNames(input)
    /\ execRan = 1 /\ execResult = FALSE /\ retval = FALSE
    /\ \A n \in NamesOf(input) : envAtExec[n] # envBefore[n]
    /\ env = envBefore


(***************************************************************************)
(* Claims about IsMalformedFileName.                                       *)
(***************************************************************************)
\* Some "/"-delimited component of p is exactly "..": positions i, i+1 hold
\* dots, with the start of p or a "/" before and the end of p or a "/" after.
HasDotDotComponent(p) ==
    \E i \in 1..(Len(p) - 1) :
        /\ p[i] = "." /\ p[i + 1] = "."
        /\ (i = 1 \/ p[i - 1] = "/")
        /\ (i + 1 = Len(p) \/ p[i + 2] = "/")

BeginsWithSeparator(p) == Len(p) > 0 /\ p[1] \in {"/", BS}

\* p begins with a drive letter and a colon.
HasDriveLetter(p) == Len(p) >= 2 /\ p[1] = "a" /\ p[2] = ":"

\* C5: IsMalformedFileName is true for every name that begins with "/" or a
\* backslash and for every name that, with each backslash replaced by "/", has
\* a "/"-delimited component exactly equal to "..", wherever it sits.
C5_DotDotAndRootedAreMalformed ==
    (lastOp = "IsMalformedFileName"
        /\ (BeginsWithSeparator(path) \/ HasDotDotComponent(canonicalPath(path))))
        => verdict = TRUE

C5_Witness ==
    /\ lastOp = "IsMalformedFileName"
    /\ path = <<".", ".", BS, "a", "/", "a">>
    /\ verdict = TRUE

\* C6: IsMalformedFileName(p) is true if and only if p has a component exactly
\* "..", or begins with a separator, or has a drive-letter form; in particular
\* a relative name that ends in a separator or has an empty component is not
\* malformed.
C6_ExactCharacterisation ==
    lastOp = "IsMalformedFileName"
        => (verdict <=> \/ HasDotDotComponent(canonicalPath(path))
                        \/ BeginsWithSeparator(path)
                        \/ HasDriveLetter(path))


(***************************************************************************)
(* Claims about Clean.                                                     *)
(***************************************************************************)
\* A name Clean must refuse: empty, reported malformed, rooted, or with "..".
IllegalName(n) ==
    \/ n = <<>>
    \/ IsMalformedFileName(n)
    \/ BeginsWithSeparator(n)
    \/ HasDotDotComponent(canonicalPath(n))

C8_CachedValueIsReturned ==
    (lastOp = "WorkingDir" /\ wdCachedBefore # "") =>
        /\ exitCode = 0
        /\ wdResult = wdCachedBefore
        /\ CachedWorkingDir = wdCachedBefore
        /\ wdLookups = 0
        /\ wdIsDirCalls = 0

\* The cached directory is no longer acceptable and DIR names another one.
C8_Witness ==
    /\ lastOp = "WorkingDir" /\ wdCachedBefore = ".."
    /\ wdResult = ".."
    /\ kindIn(fsys, "..") = "none"
    /\ env["DIR"] = Defined("foo") /\ kindIn(fsys, "foo") = "dir"
    /\ kindIn(fsys, filepathJoin("foo", ".git")) = "dir"

\* A candidate WorkingDir must refuse, stated on the tree itself.
BadCandidate(f, c) ==
    \/ c = ""
    \/ kindIn(f, c) # "dir"
    \/ kindIn(f, filepathJoin(c, ".git")) # "dir"

\* C9: with nothing cached the candidate is the value of DIR whenever DIR is
\* set (the empty string included) and ".." only when DIR is unset; ExitFn(1)
\* is called exactly when the candidate is empty, is no existing directory or
\* has no child directory ".git"; otherwise the candidate is returned.
C9_Resolution ==
    (lastOp = "WorkingDir" /\ wdCachedBefore = "") =>
        LET candidate == IF env["DIR"].defined THEN env["DIR"].value ELSE ".." IN
        /\ exitCode \in {0, 1}
        /\ exitCode = 1 <=> BadCandidate(fsys, candidate)
        /\ exitCode = 0 => wdResult = candidate

C9_Witness ==
    /\ lastOp = "WorkingDir" /\ wdCachedBefore = ""
    /\ env["DIR"] = Defined("")
    /\ ~BadCandidate(fsys, "..")
    /\ exitCode = 1

\* C10: the cached working directory is either empty or a value that passed
\* validation when it was stored; a candidate that fails validation is neither
\* written to the cache nor returned.
C10_CacheHoldsValidatedValue ==
    /\ CachedWorkingDir # "" => ~BadCandidate(fsAtStore, CachedWorkingDir)
    /\ exitCode # 0 => CachedWorkingDir = wdCachedBefore
    /\ (lastOp = "WorkingDir" /\ exitCode = 0) =>
            wdResult = CachedWorkingDir /\ ~BadCandidate(fsAtStore, wdResult)

\* The stored value was acceptable when stored and is not any more.
C10_Witness ==
    /\ CachedWorkingDir = "foo"
    /\ ~BadCandidate(fsAtStore, "foo")
    /\ BadCandidate(fsys, "foo")
    /\ lastOp = "WorkingDir" /\ wdResult = "foo"

(***************************************************************************)
(* Claims about the directory walker.                                      *)
(***************************************************************************)
\* Node m lies below node n.
Below(n, m) == Len(n) < Len(m) /\ SubSeq(m, 1, Len(n)) = n

\* The directories found from directory r through directories that can be read.
Reachable(r) ==
    {m \in DOMAIN tree :
        /\ m = r \/ Below(r, m)
        /\ tree[m] \in {"dir", "locked"}
        /\ \A k \in Len(r)..(Len(m) - 1) : tree[SubSeq(m, 1, k)] = "dir"}

\* Directory n can be read and holds a regular file whose name m accepts.
DirectlyContains(n, m) ==
    /\ tree[n] = "dir"
    /\ \E x \in DOMAIN tree :
        /\ Len(x) = Len(n) + 1
        /\ parentOf(x) = n
        /\ tree[x] = "file"
        /\ fileMatcher(m, x[Len(x)])

\* The paths AllDirs lists from top whose directory qualifies under matcher.
Qualifying ==
    SelectSeq(AllDirs(top).dirs, LAMBDA d : DirectlyContains(nodeOf(d), matcher))

\* C11: AllDirs(top) returns an error, with an empty list, exactly when top
\* does not exist or is not a directory; when top is a directory it returns
\* no error and a list, whatever lies below top, unreadable directories
\* included.
C11_AllDirsError ==
    (lastOp = "AllDirs" /\ pc = "returned") =>
        /\ dirsErr <=> (nodeOf(top) = NoNode
                            \/ tree[nodeOf(top)] \notin {"dir", "locked"})
        /\ dirsErr => dirs = <<>>
        /\ ~dirsErr => Len(dirs) >= 1

C11_Witness ==
    /\ lastOp = "AllDirs"
    /\ pc = "returned"
    /\ dirsErr
    /\ nodeOf(top) # NoNode
    /\ tree[nodeOf(top)] = "file"

C14_RelativePaths ==
    (lastOp = "RelevantDirs" /\ pc = "returned" /\ ~dirsErr) =>
        /\ Len(dirs) = Len(Qualifying)
        /\ \A k \in 1..Len(dirs) :
              dirs[k] = joinNames(SubSeq(nodeOf(Qualifying[k]), Len(nodeOf(top)) + 1,
                                         Len(nodeOf(Qualifying[k]))), "/")

(***************************************************************************)
(* Claims about the task functions.                                        *)
(***************************************************************************)
InstallingTasks == {"Lint", "NilAway", "VulnerabilityCheck", "Deadcode"}

InstallText(t) ==
    CASE t = "Lint" -> "go install -v github.com/go-critic/go-critic/cmd/gocritic@latest"
      [] t = "NilAway" -> "go install -v go.uber.org/nilaway/cmd/nilaway@latest"
      [] t = "VulnerabilityCheck" -> "go install -v golang.org/x/vuln/cmd/govulncheck@latest"
      [] t = "Deadcode" -> "go install -v golang.org/x/tools/cmd/deadcode@latest"

ToolText(t) ==
    CASE t = "Lint" -> "gocritic check -enableAll ./..."
      [] t = "NilAway" -> "nilaway ./..."
      [] t = "VulnerabilityCheck" -> "govulncheck -show verbose ./..."

\* C15: Lint, NilAway, VulnerabilityCheck and Deadcode execute at most two
\* commands; the first is the install command of their tool, the second, the
\* tool's own command, is executed only after a successful install and, by the
\* time the function returns, exactly once after it; the function returns true
\* exactly when both commands succeeded.
C15_InstallThenTool ==
    task \in InstallingTasks =>
        /\ Len(cmdLog) <= 2
        /\ Len(cmdLog) >= 1 => cmdLog[1].command = InstallText(task)
        /\ Len(cmdLog) = 2 =>
              /\ cmdLog[1].result
              /\ cmdLog[2].command # InstallText(task)
              /\ task # "Deadcode" => cmdLog[2].command = ToolText(task)
        /\ taskDone =>
              /\ Len(cmdLog) >= 1
              /\ cmdLog[1].result => Len(cmdLog) = 2
              /\ taskRet <=> (Len(cmdLog) = 2 /\ cmdLog[1].result /\ cmdLog[2].result)

C15_Witness ==
    /\ task = "VulnerabilityCheck"
    /\ taskDone
    /\ ~taskRet
    /\ Len(cmdLog) = 2
    /\ cmdLog[1].result
    /\ ~cmdLog[2].result

\* C16: GenerateCoverageReport(file) executes nothing and returns false when
\* file is empty, has a ".." component, begins with a separator or has a
\* drive-letter prefix; for every other file it executes the test command,
\* then the cover command if and only if the test command succeeded, and
\* returns true exactly when both succeeded.
C16_CoverageReport ==
    (task = "GenerateCoverageReport" /\ taskDone) =>
        IF \/ coverageDataFile = <<>>
           \/ HasDotDotComponent(coverageDataFile)
           \/ BeginsWithSeparator(coverageDataFile)
           \/ HasDriveLetter(coverageDataFile)
        THEN cmdLog = <<>> /\ ~taskRet
        ELSE /\ Len(cmdLog) \in {1, 2}
             /\ cmdLog[1].command = "go test -coverprofile=%s ./..."
             /\ cmdLog[1].arg = coverageDataFile
             /\ Len(cmdLog) = 2 <=> cmdLog[1].result
             /\ Len(cmdLog) = 2 =>
                   /\ cmdLog[2].command = "go tool cover -html=%s"
                   /\ cmdLog[2].arg = coverageDataFile
             /\ taskRet <=> (Len(cmdLog) = 2 /\ cmdLog[2].result)

\* C17: UpdateDependencies executes nothing and returns false when the
\* working directory is not a directory; otherwise its commands are, for the
\* directories that directly hold go.mod in the order of the walker, "go get
\* -u ./..." and then "go mod tidy", each in that directory; every command but
\* the last executed one succeeded, and it returns true exactly when all the
\* commands of all those directories were executed and succeeded.
C17_UpdateDependencies ==
    (task = "UpdateDependencies" /\ taskDone) =>
        LET root == bytesOf(CachedWorkingDir)
            qual == SelectSeq(AllDirs(root).dirs,
                              LAMBDA d : DirectlyContains(nodeOf(d), "matchModuleFile"))
        IN  IF nodeOf(root) = NoNode \/ tree[nodeOf(root)] \notin {"dir", "locked"}
            THEN cmdLog = <<>> /\ ~taskRet
            ELSE /\ Len(cmdLog) <= 2 * Len(qual)
                 /\ \A i \in 1..Len(cmdLog) :
                       /\ cmdLog[i].command =
                             (IF i % 2 = 1 THEN "go get -u ./..." ELSE "go mod tidy")
                       /\ nodeOf(cmdLog[i].dir) = nodeOf(qual[(i + 1) \div 2])
                 /\ \A i \in 1..(Len(cmdLog) - 1) : cmdLog[i].result
                 /\ taskRet <=> (/\ Len(cmdLog) = 2 * Len(qual)
                                 /\ \A i \in 1..Len(cmdLog) : cmdLog[i].result)
                 /\ ~taskRet => (Len(cmdLog) >= 1 /\ ~cmdLog[Len(cmdLog)].result)

\* C18: with the aggressive flag, GOPROXY is "direct" when ExecFn is entered
\* for "go get -u ./...", and has the state it had when UpdateDependencies was
\* called when ExecFn is entered for "go mod tidy" and when UpdateDependencies
\* has returned; without the flag UpdateDependencies makes no call that sets
\* or unsets a variable.
C18_AggressiveProxy ==
    task = "UpdateDependencies" =>
        /\ AggressiveFlag =>
              /\ \A i \in 1..Len(cmdLog) :
                    cmdLog[i].goproxy =
                        (IF cmdLog[i].command = "go get -u ./..."
                         THEN Defined("direct") ELSE taskEnvBefore["GOPROXY"])
              /\ taskDone => env["GOPROXY"] = taskEnvBefore["GOPROXY"]
        /\ ~AggressiveFlag => (taskEnvCalls = 0 /\ envCalls = 0 /\ env = taskEnvBefore)

C18_Witness ==
    /\ task = "UpdateDependencies"
    /\ AggressiveFlag
    /\ taskDone
    /\ taskRet
    /\ Len(cmdLog) = 4
    /\ taskEnvBefore["GOPROXY"] = Defined("foo")

\* C19: after a successful install Deadcode executes one more command, whose
\* text is "deadcode", "-f='<template>'" unless NoFormatFlag is set, "-test"
\* unless NoTestFlag is set, and ".", with single spaces between them.
C19_DeadcodeCommand ==
    (task = "Deadcode" /\ taskDone /\ Len(cmdLog) >= 1 /\ cmdLog[1].result) =>
        /\ Len(cmdLog) = 2
        /\ cmdLog[2].command =
              (IF NoFormatFlag
               THEN (IF NoTestFlag THEN "deadcode ." ELSE "deadcode -test .")
               ELSE IF NoTestFlag THEN "deadcode -f='" \o TemplateFlag \o "' ."
               ELSE "deadcode -f='" \o TemplateFlag \o "' -test .")

C19_Witness ==
    /\ task = "Deadcode"
    /\ taskDone
    /\ Len(cmdLog) = 2
    /\ NoFormatFlag
    /\ ~NoTestFlag
    /\ TemplateFlag # DefaultTemplate
    /\ cmdLog[2].command = "deadcode -test ."

(***************************************************************************)
(* Claims about EatTrailingEOL.                                            *)
(***************************************************************************)
\* C20: EatTrailingEOL(s) is the beginning of s, what it leaves out holds
\* only line feeds and carriage returns, it does not end in either, and
\* EatTrailingEOL leaves it as it is.
C20_EatTrailingEOL ==
    (lastOp = "EatTrailingEOL" /\ pc = "returned") =>
        /\ Len(eolOutput) <= Len(eolInput)
        /\ eolOutput = SubSeq(eolInput, 1, Len(eolOutput))
        /\ \A i \in (Len(eolOutput) + 1)..Len(eolInput) : eolInput[i] \in {LF, CR}
        /\ eolOutput # <<>> => eolOutput[Len(eolOutput)] \notin {LF, CR}
        /\ EatTrailingEOL(eolOutput) = eolOutput

C20_Witness ==
    /\ lastOp = "EatTrailingEOL"
    /\ pc = "returned"
    /\ eolInput = <<LF, "o", CR, LF, CR>>
    /\ eolOutput = <<LF, "o">>

(***************************************************************************)
(* Further claims about the scope manager and execute.                     *)
(***************************************************************************)
\* The events of a call on the entries of batch, in the order of batch.
EntryEvents(call, batch) ==
    [i \in 1..Len(batch) |-> [op |-> call, name |-> batch[i].Name]]

\* s without the line feeds and carriage returns it ends in.
WithoutTrailingEOL(s) ==
    LET keep == {i \in 1..Len(s) : s[i] \notin {LF, CR}}
        k == IF keep = {} THEN 0 ELSE CHOOSE i \in keep : \A j \in keep : j <= i
    IN  SubSeq(s, 1, k)

\* C23: in an execute call with a duplicate-free batch, first every directive
\* of the batch is applied, in the order of the batch, then ExecFn is invoked,
\* then every entry of the snapshot is restored, then PrintBuffer flushes the
\* captured output, which prints it without its trailing line ends and prints
\* nothing when nothing is left; ExecFn is not invoked before the whole batch
\* is applied and PrintBuffer does not run before the restoration is over.
C23_ExecuteOrder ==
    (lastOp = "execute" /\ DistinctNames(input)) =>
        LET applied == EntryEvents("SetupEnvVars", input)
            invoked == <<[op |-> "ExecFn", name |-> ""]>>
            restored == EntryEvents("RestoreEnvVars", savedEnvVars)
            flushed == <<[op |-> "PrintBuffer", name |-> ""]>>
        IN  /\ pc = "exec" => events = applied
            /\ pc = "deferred" => events = applied \o invoked
            /\ pc = "returned" =>
                  /\ events = applied \o invoked \o restored \o flushed
                  /\ Len(restored) = Len(applied)
                  /\ printed = WithoutTrailingEOL(outputBuffer)

C23_Witness ==
    /\ lastOp = "execute"
    /\ pc = "returned"
    /\ Len(input) = 2
    /\ DistinctNames(input)
    /\ Len(events) = 6
    /\ events[3].op = "ExecFn"
    /\ events[5].op = "RestoreEnvVars"
    /\ events[6].op = "PrintBuffer"
    /\ outputBuffer = <<"o", CR, LF>>
    /\ printed = <<"o">>

\* C24: when SetupEnvVars succeeds (called on its own or by execute), its
\* snapshot is as long as its input, entry i has the name of directive i and
\* holds the state that variable had before the call: its value with Unset
\* false if it was defined, the empty value with Unset true if it was not; and
\* every variable of the batch is left as its directive says.
C24_Snapshot ==
    ((lastOp = "SetupEnvVars" \/ (lastOp = "execute" /\ pc = "exec")) /\ envVarsOK) =>
        /\ ~savedIsNil
        /\ Len(savedEnvVars) = Len(input)
        /\ \A i \in 1..Len(input) :
              /\ savedEnvVars[i].Name = input[i].Name
              /\ envBefore[input[i].Name].defined =>
                    /\ savedEnvVars[i].Value = envBefore[input[i].Name].value
                    /\ ~savedEnvVars[i].Unset
              /\ ~envBefore[input[i].Name].defined =>
                    /\ savedEnvVars[i].Value = ""
                    /\ savedEnvVars[i].Unset
              /\ env[input[i].Name] =
                    (IF input[i].Unset THEN Undefined ELSE Defined(input[i].Value))
        /\ lastOp = "execute" => events = EntryEvents("SetupEnvVars", input)

C24_Witness ==
    /\ lastOp = "SetupEnvVars"
    /\ envVarsOK
    /\ Len(input) = 2
    /\ envBefore[input[1].Name] = Defined("foo")
    /\ input[1] = [Name |-> input[1].Name, Value |-> "", Unset |-> FALSE]
    /\ savedEnvVars[1] = [Name |-> input[1].Name, Value |-> "foo", Unset |-> FALSE]
    /\ envBefore[input[2].Name] = Undefined
    /\ input[2].Value = "foo" /\ ~input[2].Unset
    /\ savedEnvVars[2] = [Name |-> input[2].Name, Value |-> "", Unset |-> TRUE]

\* C28: no step of SetupEnvVars, RestoreEnvVars or execute changes the state
\* of a variable whose name is not in the batch the operation was given (the
\* directives for SetupEnvVars and execute, the snapshot for RestoreEnvVars);
\* what ExecFn itself does to the environment is not the operation's doing.
C28_Frame ==
    [][\A n \in DOMAIN env :
          env'[n] # env[n] =>
              \/ pc = "exec"
              \/ n \in (IF lastOp' = "RestoreEnvVars" THEN NamesOf(savedEnvVars')
                        ELSE NamesOf(input'))]_vars

C28_Witness ==
    /\ lastOp = "execute"
    /\ pc = "returned"
    /\ NamesOf(input) = {"VAR2"}
    /\ envAtExec["VAR2"] # envBefore["VAR2"]
    /\ execTouched = {}
    /\ env = envBefore
    /\ env["VAR1"] = Defined("foo")
    /\ env["DIR"] = Defined("foo")


(***************************************************************************)
(* Claims about containsBackDir, isParentDir and the recursions.            *)
(***************************************************************************)
\* C25: containsBackDir(p) is true exactly when p, cut at "/" and at
\* backslashes, has a component ".."; and on a name that neither begins with
\* a separator nor has a drive-letter form it returns what
\* IsMalformedFileName returns.
C25_ContainsBackDir ==
    (recFn = "containsBackDir" /\ recDone) =>
        /\ recResult <=> HasDotDotComponent(canonicalPath(recInput))
        /\ (~BeginsWithSeparator(recInput) /\ ~HasDriveLetter(recInput))
              => (recResult <=> IsMalformedFileName(recInput))

\* The components of a directory name: what lies between its "/", an empty
\* end left out, so that "b/" names the directory "b" names.
RECURSIVE NameComponents(_)
NameComponents(d) ==
    LET seps == {i \in 1..Len(d) : d[i] = "/"}
    IN  IF d = <<>> THEN <<>>
        ELSE IF seps = {} THEN <<d>>
        ELSE LET i == CHOOSE k \in seps : \A j \in seps : k <= j
             IN  <<SubSeq(d, 1, i - 1)>> \o NameComponents(SubSeq(d, i + 1, Len(d)))

\* d is the name of a directory below the root: components that are not
\* empty, with "/" between them and, if slash, one more "/" at the end.
NamesDirectory(d, slash) ==
    /\ d # <<>>
    /\ \A i \in 1..Len(NameComponents(d)) : NameComponents(d)[i] # <<>>
    /\ d[Len(d)] = "/" => slash

\* The directory parent names is the directory target names or above it.
SameOrAbove(parent, target) ==
    LET pc_ == NameComponents(parent)
        tc == NameComponents(target)
    IN  Len(pc_) <= Len(tc) /\ SubSeq(tc, 1, Len(pc_)) = pc_

\* C26: for a target as RelevantDirs writes directories and a parent written
\* with or without "/" at its end, isParentDir(target, parent) is true
\* exactly when parent names the directory of target or one above it, by
\* whole components.
C26_IsParentDir ==
    (lastOp = "isParentDir" /\ pc = "returned"
        /\ (targetDir = <<>> \/ NamesDirectory(targetDir, FALSE))
        /\ NamesDirectory(possibleParent, TRUE))
        => (parentResult <=> SameOrAbove(possibleParent, targetDir))

\* C27: every recursive call of IsMalformedFileName, containsBackDir and
\* EatTrailingEOL has an argument shorter than the argument of the invocation
\* that makes it, and a call on s makes at most Len(s) + 1 invocations.
C27_Termination ==
    recFn # "none" =>
        /\ recCalls > 1 => Len(recArg) < recPrevLen
        /\ recCalls <= Len(recInput) + 1


(***************************************************************************)
(* Claims about GenerateDocumentation and FormatSelective.                  *)
(***************************************************************************)
\* No directory of the list excluded is the directory d names or above it.
NotExcluded(d, excluded) ==
    ~\E i \in 1..Len(excluded) : SameOrAbove(excluded[i], d)

\* The working directory is no directory.
RootMissing ==
    LET n == nodeOf(bytesOf(CachedWorkingDir))
    IN  n = NoNode \/ tree[n] \notin {"dir", "locked"}

\* C21: GenerateDocumentation executes nothing and returns false when the
\* working directory is not a directory; otherwise its commands are "go doc
\* -all ./<dir>", in the working directory, for the directories RelevantDirs
\* returns with MatchGoSource that are neither an excluded directory nor
\* below one, in the order of RelevantDirs; every command but the last
\* executed one succeeded, and it returns true exactly when all those
\* commands were executed and succeeded.
C21_GenerateDocumentation ==
    (task = "GenerateDocumentation" /\ taskDone) =>
        LET root == bytesOf(CachedWorkingDir)
            want == SelectSeq(RelevantDirs(root, "MatchGoSource").dirs,
                              LAMBDA d : NotExcluded(d, exclusions))
        IN  IF RootMissing THEN cmdLog = <<>> /\ ~taskRet
            ELSE /\ Len(cmdLog) <= Len(want)
                 /\ \A i \in 1..Len(cmdLog) :
                       /\ cmdLog[i].command = "go doc -all ./%s"
                       /\ cmdLog[i].arg = want[i]
                       /\ cmdLog[i].dir = root
                 /\ \A i \in 1..(Len(cmdLog) - 1) : cmdLog[i].result
                 /\ taskRet <=> (/\ Len(cmdLog) = Len(want)
                                 /\ \A i \in 1..Len(cmdLog) : cmdLog[i].result)

\* What FormatSelective is to put behind "gofmt -e -l -s -w": the names of
\* the files of the working directory that end in ".go", then the path from
\* the working directory of each directory below it that directly holds such
\* a file and is not excluded, in the order of the walker.
WantedPaths ==
    LET root == bytesOf(CachedWorkingDir)
        rootNode == nodeOf(root)
        rootFiles == sortNames({x[Len(x)] : x \in {y \in DOMAIN tree :
                        /\ Len(y) = Len(rootNode) + 1
                        /\ parentOf(y) = rootNode
                        /\ tree[y] = "file"
                        /\ matchAnyGoFile(y[Len(y)])}})
        below == SelectSeq(AllDirs(root).dirs, LAMBDA d :
                    /\ nodeOf(d) # rootNode
                    /\ DirectlyContains(nodeOf(d), "matchAnyGoFile"))
        paths == [i \in 1..Len(below) |->
                    joinNames(SubSeq(nodeOf(below[i]), Len(rootNode) + 1,
                                     Len(nodeOf(below[i]))), "/")]
    IN  rootFiles \o SelectSeq(paths, LAMBDA d : NotExcluded(d, exclusions))

\* C22: with no exclusions FormatSelective executes "gofmt -e -l -s -w ." and
\* nothing else; with exclusions it executes nothing and returns false when
\* the working directory is not a directory, and otherwise executes the one
\* command "gofmt -e -l -s -w" followed by the wanted paths, each with one
\* space before it; it returns what the command returned.
C22_FormatSelective ==
    (task = "FormatSelective" /\ taskDone) =>
        IF exclusions = <<>>
        THEN /\ Len(cmdLog) = 1
             /\ cmdLog[1].command = "gofmt -e -l -s -w ."
             /\ cmdLog[1].arg = <<>>
             /\ taskRet = cmdLog[1].result
        ELSE IF RootMissing THEN cmdLog = <<>> /\ ~taskRet
        ELSE /\ Len(cmdLog) = 1
             /\ cmdLog[1].command = "gofmt -e -l -s -w"
             /\ cmdLog[1].arg = joinNames(<< <<>> >> \o WantedPaths, " ")
             /\ taskRet = cmdLog[1].result

\* C30: whenever FormatSelective, called with exclusions, executes gofmt,
\* the command line names at least one file or directory behind "gofmt -e -l
\* -s -w".
C30_GofmtHasPath ==
    (task = "FormatSelective" /\ exclusions # <<>> /\ Len(cmdLog) >= 1) =>
        cmdLog[1].arg # <<>>


(***************************************************************************)
(* Claim about the order in which Clean works through its list.            *)
(***************************************************************************)
\* The file a name designates from the working directory: "./a" is the file
\* "a" is.
FileOf(name) ==
    IF HasPrefix(name, <<".", "/">>) THEN SubSeq(name, 3, Len(name)) ELSE name

\* C29: when Clean has called ExitFn, it did so at the first illegal name of
\* the list; no file designated by a name before that position exists any
\* more, and the files that are gone are all designated by names before that
\* position.
C29_CleanInOrder ==
    (lastOp = "Clean" /\ pc = "exited" /\ wdResult # "") =>
        LET illegal == {j \in 1..Len(files) : IllegalName(files[j])}
            i == CHOOSE k \in illegal : \A j \in illegal : k <= j
        IN  /\ illegal # {}
            /\ cleanIdx = i
            /\ \A j \in 1..(i - 1) : FileOf(files[j]) \notin present
            /\ (presentBefore \ present) \subseteq {FileOf(files[j]) : j \in 1..(i - 1)}

=============================================================================
